---------------------------- MODULE Spec2Model ----------------------------
(***************************************************************************)
(* A model of opencode-repos: the manifest store (src/src/manifest.ts),    *)
(* the git acquisition engine (src/unnamed/part_003, the current git.ts)   *)
(* and the orchestration layer (src/index.ts, lines 2040-3048, the current *)
(* plugin).                                                                *)
(*                                                                         *)
(* Three specifications share the variables:                               *)
(*   SpecStore  loadManifest / saveManifest on raw file contents           *)
(*   SpecLock   withManifestLock around the manifest helpers of index.ts   *)
(*   Spec       the tool operations (ensureCachedRepo, repo_read, ...)     *)
(***************************************************************************)
EXTENDS Naturals, Integers, Sequences, FiniteSets, TLC

(***************************************************************************)
(* JavaScript / JSON values.  A value is a record [t, s, f]: t is the kind *)
(* of value, s the payload of a string, boolean or number (as text), f the *)
(* own properties of an object or array (property name -> value).          *)
(***************************************************************************)
NoProps == [k \in {} |-> 0]

JUndefined == [t |-> "undefined", s |-> "", f |-> NoProps]

JNull == [t |-> "null", s |-> "", f |-> NoProps]

JStr(x) == [t |-> "string", s |-> x, f |-> NoProps]

JBool(x) == [t |-> "boolean", s |-> x, f |-> NoProps]

JNum(x) == [t |-> "number", s |-> x, f |-> NoProps]

JObj(props) == [t |-> "object", s |-> "", f |-> props]

JArr(props) == [t |-> "array", s |-> "", f |-> props]

\* typeof v
TypeOf(v) == IF v.t \in {"null", "object", "array"} THEN "object" ELSE v.t

\* the truthiness of v, as in `!value` and `value && ...`
Truthy(v) ==
  CASE v.t \in {"undefined", "null"} -> FALSE
    [] v.t = "boolean" -> v.s = "true"
    [] v.t = "number" -> v.s # "0"
    [] v.t = "string" -> v.s # ""
    [] OTHER -> TRUE

\* raw[name]: undefined when the property is missing
Prop(v, name) == IF name \in DOMAIN v.f THEN v.f[name] ELSE JUndefined

(***************************************************************************)
(* In-memory manifests (manifest.ts:5-21).  String fields are TLA+ strings;*)
(* an optional field that is undefined holds UNDEF; shallow and sizeBytes  *)
(* hold the text of their boolean / number.                                *)
(***************************************************************************)
UNDEF == "<undefined>"

EntryFields ==
  {"type", "path", "currentBranch", "lastAccessed", "clonedAt", "lastUpdated",
   "sizeBytes", "shallow", "remote"}

createEmptyManifest == [version |-> 1, repos |-> NoProps, localIndex |-> NoProps]

\* The entry that stands for "no entry" (manifest.repos[key] === undefined).
NoEntry ==
  [type |-> UNDEF, path |-> UNDEF, currentBranch |-> UNDEF, lastAccessed |-> UNDEF,
   clonedAt |-> UNDEF, lastUpdated |-> UNDEF, sizeBytes |-> UNDEF, shallow |-> UNDEF,
   remote |-> UNDEF]

EntryOf(m, key) == IF key \in DOMAIN m.repos THEN m.repos[key] ELSE NoEntry

\* raw.<name> if it is a string, else undefined (manifest.ts:61,62,65)
StringOrUndef(raw, name) ==
  IF TypeOf(Prop(raw, name)) = "string" THEN Prop(raw, name).s ELSE UNDEF

normalizeRepoEntry_DropsRemote(value, now) ==
  IF ~Truthy(value) \/ TypeOf(value) # "object"
  THEN [ok |-> FALSE, entry |-> NoEntry]
  ELSE LET type == Prop(value, "type")
           path == Prop(value, "path")
           currentBranch == Prop(value, "currentBranch")
           lastAccessed == Prop(value, "lastAccessed")
       IN IF ~(type = JStr("cached") \/ type = JStr("local")) \/ TypeOf(path) # "string"
          THEN [ok |-> FALSE, entry |-> NoEntry]
          ELSE [ok |-> TRUE,
                entry |->
                  [type |-> type.s,
                   path |-> path.s,
                   currentBranch |->
                     IF TypeOf(currentBranch) = "string" /\ Truthy(currentBranch)
                     THEN currentBranch.s ELSE "main",
                   lastAccessed |->
                     IF TypeOf(lastAccessed) = "string" /\ Truthy(lastAccessed)
                     THEN lastAccessed.s ELSE now,
                   clonedAt |-> StringOrUndef(value, "clonedAt"),
                   lastUpdated |-> StringOrUndef(value, "lastUpdated"),
                   sizeBytes |->
                     IF TypeOf(Prop(value, "sizeBytes")) = "number"
                     THEN Prop(value, "sizeBytes").s ELSE UNDEF,
                   shallow |->
                     IF TypeOf(Prop(value, "shallow")) = "boolean"
                     THEN Prop(value, "shallow").s ELSE UNDEF,
                   remote |-> UNDEF]]

\* manifest.ts:40-67.  [ok |-> FALSE] is the `return null`.
normalizeRepoEntry(value, now) ==
  IF ~Truthy(value) \/ TypeOf(value) # "object"
  THEN [ok |-> FALSE, entry |-> NoEntry]
  ELSE LET type == Prop(value, "type")
           path == Prop(value, "path")
           currentBranch == Prop(value, "currentBranch")
           lastAccessed == Prop(value, "lastAccessed")
       IN IF ~(type = JStr("cached") \/ type = JStr("local")) \/ TypeOf(path) # "string"
          THEN [ok |-> FALSE, entry |-> NoEntry]
          ELSE [ok |-> TRUE,
                entry |->
                  [type |-> type.s,
                   path |-> path.s,
                   currentBranch |->
                     IF TypeOf(currentBranch) = "string" /\ Truthy(currentBranch)
                     THEN currentBranch.s ELSE "main",
                   lastAccessed |->
                     IF TypeOf(lastAccessed) = "string" /\ Truthy(lastAccessed)
                     THEN lastAccessed.s ELSE now,
                   clonedAt |-> StringOrUndef(value, "clonedAt"),
                   lastUpdated |-> StringOrUndef(value, "lastUpdated"),
                   sizeBytes |->
                     IF TypeOf(Prop(value, "sizeBytes")) = "number"
                     THEN Prop(value, "sizeBytes").s ELSE UNDEF,
                   shallow |->
                     IF TypeOf(Prop(value, "shallow")) = "boolean"
                     THEN Prop(value, "shallow").s ELSE UNDEF,
                   remote |-> StringOrUndef(value, "remote")]]

\* manifest.ts:69-103
normalizeManifest(value, now) ==
  IF ~Truthy(value) \/ TypeOf(value) # "object"
  THEN createEmptyManifest
  ELSE LET reposValue == Prop(value, "repos")
           localIndexValue == Prop(value, "localIndex")
           repoKeys ==
             IF Truthy(reposValue) /\ TypeOf(reposValue) = "object"
             THEN {k \in DOMAIN reposValue.f : normalizeRepoEntry(reposValue.f[k], now).ok}
             ELSE {}
           indexKeys ==
             IF Truthy(localIndexValue) /\ TypeOf(localIndexValue) = "object"
             THEN {r \in DOMAIN localIndexValue.f : TypeOf(localIndexValue.f[r]) = "string"}
             ELSE {}
       IN [version |-> 1,
           repos |-> [k \in repoKeys |-> normalizeRepoEntry(reposValue.f[k], now).entry],
           localIndex |-> [r \in indexKeys |-> localIndexValue.f[r].s]]

(***************************************************************************)
(* JSON.stringify of an in-memory manifest followed by JSON.parse of the   *)
(* text: properties whose value is undefined are left out, strings stay    *)
(* strings, shallow becomes a boolean and sizeBytes a number.              *)
(***************************************************************************)
EntryToJson(e) ==
  LET present == {fld \in EntryFields : e[fld] # UNDEF}
  IN JObj([fld \in present |->
             CASE fld = "shallow" -> JBool(e[fld])
               [] fld = "sizeBytes" -> JNum(e[fld])
               [] OTHER -> JStr(e[fld])])

ManifestToJson(m) ==
  JObj([fld \in {"version", "repos", "localIndex"} |->
          CASE fld = "version" -> JNum("1")
            [] fld = "repos" -> JObj([k \in DOMAIN m.repos |-> EntryToJson(m.repos[k])])
            [] OTHER -> JObj([r \in DOMAIN m.localIndex |-> JStr(m.localIndex[r])])])

(***************************************************************************)
(* File contents.  A file that exists holds text; the text either parses   *)
(* (JSON.parse gives json) or does not (a truncated or foreign text; json  *)
(* then records what the text was a prefix of).                            *)
(***************************************************************************)
NoFile == [exists |-> FALSE, parses |-> FALSE, json |-> JNull]

TextOf(json) == [exists |-> TRUE, parses |-> TRUE, json |-> json]

\* the text of json cut short: what a reader sees of a write in progress
PartialOf(json) == [exists |-> TRUE, parses |-> FALSE, json |-> json]

loadManifest_NoCatch(file, now) ==
  IF ~file.exists
  THEN [threw |-> FALSE, manifest |-> createEmptyManifest]
  ELSE IF ~file.parses
       THEN [threw |-> TRUE, manifest |-> createEmptyManifest]
       ELSE [threw |-> FALSE, manifest |-> normalizeManifest(file.json, now)]

\* manifest.ts:105-117.  threw: the call raised instead of returning.
loadManifest(file, now) ==
  IF ~file.exists
  THEN [threw |-> FALSE, manifest |-> createEmptyManifest]
  ELSE IF ~file.parses
       THEN [threw |-> FALSE, manifest |-> createEmptyManifest]
       ELSE [threw |-> FALSE, manifest |-> normalizeManifest(file.json, now)]

\* manifest.ts:121-122: the text saveManifest writes
SavedText(m, now) == TextOf(ManifestToJson(normalizeManifest(ManifestToJson(m), now)))


(***************************************************************************)
(* Bounds of the model and the values requests are drawn from.             *)
(***************************************************************************)
\* the number of concurrent invocations (processes or tasks)
NumProcs == 2

Procs == 1..NumProcs

\* the number of operations started in one behaviour; it also bounds the clock
MaxOps == 3

VARIABLES
  manifestFile,   \* <cacheDir>/manifest.json
  manifestTmp,    \* <cacheDir>/manifest.json.tmp
  clock,          \* the wall clock, in steps; nowIso is its text
  io,             \* SpecStore: each process's loadManifest / saveManifest call
  lastSaved,      \* SpecStore: the manifests of the last two completed saves
  lock,           \* <cacheDir>/manifest.lock: the marker, who created it, its age
  lk,             \* each process's withManifestLock call
  fs,             \* the directories: cache destinations and the user's working trees
  st,             \* each process's tool operation: its place and its locals
  mutatedLocal,   \* paths that were mutated while a local entry pointed at them
  remoteRepo      \* the repository on the remote: its branches and its symbolic HEAD

storeVars == <<manifestFile, manifestTmp>>

ioVars == <<io, lastSaved>>

lockVars == <<lock, lk>>

toolVars == <<fs, st, mutatedLocal, remoteRepo>>

\* index.ts:2143-2145
nowIso == ToString(clock)

(***************************************************************************)
(* SpecStore: loadManifest and saveManifest called directly, the saves one *)
(* after another, the loads at any moment.                                 *)
(***************************************************************************)
WidgetsHttps == "https://github.com/acme/widgets.git"

GearsSsh == "git@github.com:acme/gears.git"

CachedSample ==
  [type |-> "cached", path |-> "/cache/acme/widgets", currentBranch |-> "trunk",
   lastAccessed |-> "5", clonedAt |-> "3", lastUpdated |-> "4", sizeBytes |-> UNDEF,
   shallow |-> "true", remote |-> WidgetsHttps]

LocalSample ==
  [type |-> "local", path |-> "/home/dev/gears", currentBranch |-> "main",
   lastAccessed |-> "6", clonedAt |-> UNDEF, lastUpdated |-> UNDEF, sizeBytes |-> UNDEF,
   shallow |-> "false", remote |-> GearsSsh]

\* every optional field left out
BareSample ==
  [type |-> "local", path |-> "/home/dev/widgets", currentBranch |-> "dev",
   lastAccessed |-> "7", clonedAt |-> UNDEF, lastUpdated |-> UNDEF, sizeBytes |-> UNDEF,
   shallow |-> UNDEF, remote |-> UNDEF]

SizedSample == [CachedSample EXCEPT !.sizeBytes = "42", !.currentBranch = "main"]

\* Manifests as the program builds them: every entry has a type, a path, a
\* non-empty currentBranch and a non-empty lastAccessed.
SampleManifests ==
  { createEmptyManifest,
    [version |-> 1, repos |-> ("acme/widgets" :> CachedSample), localIndex |-> NoProps],
    [version |-> 1, repos |-> ("acme/gears" :> LocalSample),
     localIndex |-> (GearsSsh :> "/home/dev/gears")],
    [version |-> 1, repos |-> ("acme/widgets" :> BareSample), localIndex |-> NoProps],
    [version |-> 1, repos |-> ("acme/widgets" :> SizedSample) @@ ("acme/gears" :> BareSample),
     localIndex |-> (WidgetsHttps :> "/home/dev/widgets") @@ (GearsSsh :> "/home/dev/gears")],
    [version |-> 1, repos |-> NoProps, localIndex |-> (GearsSsh :> "/home/dev/gears")] }

\* What may lie at manifest.json before the first call: nothing, a text that
\* is not JSON, JSON that is no object, and objects of other shapes.
ForeignFiles ==
  { NoFile,
    PartialOf(JNull),
    TextOf(JNull),
    TextOf(JNum("7")),
    TextOf(JNum("0")),
    TextOf(JStr("manifest")),
    TextOf(JBool("true")),
    TextOf(JArr(NoProps)),
    TextOf(JArr("0" :> EntryToJson(CachedSample))),
    TextOf(JObj(NoProps)),
    TextOf(JObj([repos |-> JStr("none"), localIndex |-> JNum("3")])),
    TextOf(JObj([repos |-> JArr("0" :> EntryToJson(LocalSample)), localIndex |-> JNull])),
    TextOf(JObj([repos |->
                   JObj([a |-> JNull,
                         b |-> JObj([type |-> JStr("remote"), path |-> JStr("/x")]),
                         c |-> JObj([type |-> JStr("cached"), path |-> JNum("1")]),
                         d |-> JObj([type |-> JStr("cached"), path |-> JStr("/some/path"),
                                     lastAccessed |-> JStr("1"),
                                     defaultBranch |-> JStr("main"),
                                     shallow |-> JStr("yes"),
                                     currentBranch |-> JStr("")])]),
                localIndex |-> JObj([u |-> JStr("/local/path"), v |-> JNum("1")])])) }

IdleIo == [pc |-> "idle", m |-> createEmptyManifest, threw |-> FALSE, at |-> "", seen |-> {}]

NoSave == [n |-> 0, last |-> createEmptyManifest, prev |-> createEmptyManifest]

Saving(p) == io[p].pc \in {"mkdir", "write", "written"}

Loading(p) == io[p].pc \in {"exists", "text"}

\* the settled contents of manifest.json a load in progress may have met
Settle(file) == [q \in Procs |-> IF Loading(q) THEN [io[q] EXCEPT !.seen = @ \cup {file}] ELSE io[q]]

\* saveManifest(m) is called: manifest.ts:119-120 (mkdir)
SaveStart(p, m) ==
  /\ io[p].pc = "idle"
  /\ clock < MaxOps
  /\ \A q \in Procs : ~Saving(q)
  /\ clock' = clock + 1
  /\ io' = [io EXCEPT ![p] = [IdleIo EXCEPT !.pc = "write", !.m = m]]
  /\ UNCHANGED <<manifestFile, manifestTmp, lastSaved, lockVars, toolVars>>

SaveWritePartial_InPlace(p) ==
  /\ io[p].pc = "write"
  /\ manifestFile' = PartialOf(SavedText(io[p].m, nowIso).json)
  /\ UNCHANGED <<manifestTmp, clock, io, lastSaved, lockVars, toolVars>>

\* manifest.ts:122, Bun.write under way: part of the text is in the tmp file
SaveWritePartial(p) ==
  /\ io[p].pc = "write"
  /\ manifestTmp' = PartialOf(SavedText(io[p].m, nowIso).json)
  /\ UNCHANGED <<manifestFile, clock, io, lastSaved, lockVars, toolVars>>

\* manifest.ts:122, Bun.write done
SaveWriteDone(p) ==
  /\ io[p].pc = "write"
  /\ manifestTmp' = SavedText(io[p].m, nowIso)
  /\ io' = [io EXCEPT ![p].pc = "written"]
  /\ UNCHANGED <<manifestFile, clock, lastSaved, lockVars, toolVars>>

\* manifest.ts:123, rename(tmp, manifest.json)
SaveRename(p) ==
  /\ io[p].pc = "written"
  /\ manifestTmp.exists
  /\ manifestFile' = manifestTmp
  /\ manifestTmp' = NoFile
  /\ io' = [Settle(manifestTmp) EXCEPT ![p] = IdleIo]
  /\ lastSaved' = [n |-> IF lastSaved.n < 2 THEN lastSaved.n + 1 ELSE 2,
                   last |-> io[p].m, prev |-> lastSaved.last]
  /\ UNCHANGED <<clock, lockVars, toolVars>>

\* loadManifest() is called: manifest.ts:106-109 (file.exists())
LoadExists(p) ==
  /\ io[p].pc = "idle"
  /\ clock < MaxOps
  /\ clock' = clock + 1
  /\ io' = [io EXCEPT ![p] =
              IF manifestFile.exists
              THEN [IdleIo EXCEPT !.pc = "text", !.seen = {manifestFile}]
              ELSE [IdleIo EXCEPT !.pc = "loaded", !.at = nowIso, !.seen = {manifestFile}]]
  /\ UNCHANGED <<manifestFile, manifestTmp, lastSaved, lockVars, toolVars>>

\* manifest.ts:111-116 (file.text(), JSON.parse, normalizeManifest)
LoadText(p) ==
  /\ io[p].pc = "text"
  /\ LET got == loadManifest(manifestFile, nowIso)
     IN io' = [io EXCEPT ![p].pc = "loaded", ![p].m = got.manifest, ![p].threw = got.threw,
                         ![p].at = nowIso]
  /\ UNCHANGED <<manifestFile, manifestTmp, clock, lastSaved, lockVars, toolVars>>

\* the caller takes the result
LoadReturn(p) ==
  /\ io[p].pc = "loaded"
  /\ io' = [io EXCEPT ![p] = IdleIo]
  /\ UNCHANGED <<manifestFile, manifestTmp, clock, lastSaved, lockVars, toolVars>>

(***************************************************************************)
(* The locked manifest writes of index.ts, as functions of the manifest    *)
(* loaded inside the lock body.  Each gives [save, manifest]: whether      *)
(* saveManifest is reached, and the manifest it is given.                  *)
(***************************************************************************)
NoWrite ==
  [kind |-> "none", key |-> UNDEF, path |-> UNDEF, branch |-> UNDEF, remote |-> UNDEF,
   clonedAt |-> UNDEF, found |-> <<>>, defaultBranch |-> UNDEF]

\* a touch that writes an entry for a key the manifest does not have
touchRepo_CreatesEntry(m, repoKey, branch, now) ==
  LET entry == IF repoKey \in DOMAIN m.repos THEN m.repos[repoKey]
               ELSE [NoEntry EXCEPT !.type = "cached"]
      touched == [entry EXCEPT !.lastAccessed = now]
      next == IF branch # UNDEF
              THEN [touched EXCEPT !.currentBranch = branch, !.lastUpdated = now]
              ELSE touched
  IN [save |-> TRUE, manifest |-> [m EXCEPT !.repos = (repoKey :> next) @@ @]]

\* a touch that saves nothing when no branch is given
touchRepo_SkipsWithoutBranch(m, repoKey, branch, now) ==
  IF repoKey \notin DOMAIN m.repos \/ branch = UNDEF
  THEN [save |-> FALSE, manifest |-> m]
  ELSE [save |-> TRUE,
        manifest |-> [m EXCEPT !.repos[repoKey].lastAccessed = now,
                               !.repos[repoKey].currentBranch = branch,
                               !.repos[repoKey].lastUpdated = now]]

\* a touch that stamps lastUpdated as well, whether or not a branch is given
touchRepo_StampsLastUpdated(m, repoKey, branch, now) ==
  IF repoKey \notin DOMAIN m.repos
  THEN [save |-> FALSE, manifest |-> m]
  ELSE LET entry == m.repos[repoKey]
           next == [entry EXCEPT !.lastAccessed = now, !.lastUpdated = now]
       IN [save |-> TRUE, manifest |-> [m EXCEPT !.repos[repoKey] = next]]

\* index.ts:2349-2365
touchRepo(m, repoKey, branch, now) ==
  IF repoKey \notin DOMAIN m.repos
  THEN [save |-> FALSE, manifest |-> m]
  ELSE LET entry == m.repos[repoKey]
           touched == [entry EXCEPT !.lastAccessed = now]
           next == IF branch # UNDEF
                   THEN [touched EXCEPT !.currentBranch = branch, !.lastUpdated = now]
                   ELSE touched
       IN [save |-> TRUE, manifest |-> [m EXCEPT !.repos[repoKey] = next]]

\* an upsert that records a working tree of its own for every branch
upsertCachedRepoEntry_PathPerBranch(m, repoKey, path, branch, remote, clonedAt, now) ==
  [save |-> TRUE,
   manifest |-> [m EXCEPT !.repos =
                   (repoKey :> [type |-> "cached", path |-> path \o "@" \o branch,
                                currentBranch |-> branch, lastAccessed |-> now,
                                lastUpdated |-> now,
                                clonedAt |-> IF clonedAt # UNDEF THEN clonedAt ELSE now,
                                sizeBytes |-> UNDEF, shallow |-> "true",
                                remote |-> remote]) @@ m.repos]]

\* index.ts:2367-2393
upsertCachedRepoEntry(m, repoKey, path, branch, remote, clonedAt, now) ==
  LET existing == EntryOf(m, repoKey)
      nextEntry ==
        [type |-> "cached",
         path |-> path,
         currentBranch |-> branch,
         lastAccessed |-> now,
         lastUpdated |-> now,
         clonedAt |-> IF clonedAt # UNDEF THEN clonedAt
                      ELSE IF existing.clonedAt # UNDEF THEN existing.clonedAt
                      ELSE now,
         sizeBytes |-> UNDEF,
         shallow |-> "true",
         remote |-> remote]
  IN [save |-> TRUE,
      manifest |-> [m EXCEPT !.repos = (repoKey :> nextEntry) @@ m.repos]]

\* a removal that leaves the localIndex as it was
removeRepoEntry_KeepsIndex(m, repoKey, path) ==
  IF repoKey \notin DOMAIN m.repos
  THEN [save |-> FALSE, manifest |-> m]
  ELSE [save |-> TRUE,
        manifest |-> [m EXCEPT !.repos = [k \in DOMAIN m.repos \ {repoKey} |-> m.repos[k]]]]

\* index.ts:2395-2414
removeRepoEntry(m, repoKey, path) ==
  IF repoKey \notin DOMAIN m.repos
  THEN [save |-> FALSE, manifest |-> m]
  ELSE LET existing == m.repos[repoKey]
           maybePath == IF path # UNDEF THEN path ELSE existing.path
           keptKeys == DOMAIN m.repos \ {repoKey}
           keptIndex == {r \in DOMAIN m.localIndex : m.localIndex[r] # maybePath}
       IN [save |-> TRUE,
           manifest |-> [m EXCEPT !.repos = [k \in keptKeys |-> m.repos[k]],
                                  !.localIndex = [r \in keptIndex |-> m.localIndex[r]]]]

\* index.ts:2839-2850: branch is `info.branch || target.branch`, remote is info.remote
repoUpdateWrite(m, repoKey, branch, remote, now) ==
  IF repoKey \notin DOMAIN m.repos
  THEN [save |-> FALSE, manifest |-> m]
  ELSE [save |-> TRUE,
        manifest |-> [m EXCEPT !.repos[repoKey] =
                        [@ EXCEPT !.currentBranch = branch, !.lastUpdated = now,
                                  !.lastAccessed = now, !.remote = remote]]]

(***************************************************************************)
(* Repository keys, URLs and paths.                                        *)
(***************************************************************************)
RepoKeys == {"acme/widgets"}

\* part_003:78-83, with `${owner}/${repo}` given as the key
buildGitUrl(repoKey, useHttps) ==
  IF useHttps THEN "https://github.com/" \o repoKey \o ".git"
  ELSE "git@github.com:" \o repoKey \o ".git"

\* scanner.ts:234-252, on the URLs that occur: the key of a github URL, else
\* UNDEF (null)
matchRemoteToSpec(remote) ==
  IF \E k \in RepoKeys : remote \in {buildGitUrl(k, TRUE), buildGitUrl(k, FALSE)}
  THEN CHOOSE k \in RepoKeys : remote \in {buildGitUrl(k, TRUE), buildGitUrl(k, FALSE)}
  ELSE UNDEF

\* index.ts:2341-2347 (keys and URLs here are lower case already)
repoRemoteMatches(remote, repoKey) ==
  IF remote = UNDEF THEN FALSE ELSE matchRemoteToSpec(remote) = repoKey

\* a scan that registers every matching working tree, whatever holds its key
RECURSIVE repoScanLoop_ReplacesCached(_, _, _, _)
repoScanLoop_ReplacesCached(m, found, defaultBranch, now) ==
  IF found = <<>> THEN m
  ELSE LET repo == Head(found)
           spec == matchRemoteToSpec(repo.remote)
           entry == [type |-> "local",
                     path |-> repo.path,
                     currentBranch |-> IF repo.branch # "" THEN repo.branch ELSE defaultBranch,
                     lastAccessed |-> now,
                     clonedAt |-> UNDEF,
                     lastUpdated |-> UNDEF,
                     sizeBytes |-> UNDEF,
                     shallow |-> "false",
                     remote |-> repo.remote]
           next == IF spec = UNDEF THEN m
                   ELSE [m EXCEPT !.repos = (spec :> entry) @@ m.repos,
                                  !.localIndex = (repo.remote :> repo.path) @@ m.localIndex]
       IN repoScanLoop_ReplacesCached(next, Tail(found), defaultBranch, now)

\* index.ts:2915-2939, the loop over the discovered working trees
RECURSIVE repoScanLoop(_, _, _, _)
repoScanLoop(m, found, defaultBranch, now) ==
  IF found = <<>> THEN m
  ELSE LET repo == Head(found)
           spec == matchRemoteToSpec(repo.remote)
           skip == spec = UNDEF \/ EntryOf(m, spec).type = "cached"
           entry == [type |-> "local",
                     path |-> repo.path,
                     currentBranch |-> IF repo.branch # "" THEN repo.branch ELSE defaultBranch,
                     lastAccessed |-> now,
                     clonedAt |-> UNDEF,
                     lastUpdated |-> UNDEF,
                     sizeBytes |-> UNDEF,
                     shallow |-> "false",
                     remote |-> repo.remote]
           next == IF skip THEN m
                   ELSE [m EXCEPT !.repos = (spec :> entry) @@ m.repos,
                                  !.localIndex = (repo.remote :> repo.path) @@ m.localIndex]
       IN repoScanLoop(next, Tail(found), defaultBranch, now)

\* index.ts:2909-2910, 2917-2926, 2939: the counters added and skipped
RECURSIVE repoScanCounts(_, _)
repoScanCounts(m, found) ==
  IF found = <<>> THEN [added |-> 0, skipped |-> 0]
  ELSE LET spec == matchRemoteToSpec(Head(found).remote)
           skip == spec = UNDEF \/ EntryOf(m, spec).type = "cached"
           rest == repoScanCounts(m, Tail(found))
       IN IF skip THEN [rest EXCEPT !.skipped = @ + 1] ELSE [rest EXCEPT !.added = @ + 1]

\* index.ts:2912-2942: the scan's lock body always saves
repoScanWrite(m, found, defaultBranch, now) ==
  [save |-> TRUE, manifest |-> repoScanLoop(m, found, defaultBranch, now)]

ApplyWrite(w, m, now) ==
  CASE w.kind = "touch" -> touchRepo(m, w.key, w.branch, now)
    [] w.kind = "upsert" ->
         upsertCachedRepoEntry(m, w.key, w.path, w.branch, w.remote, w.clonedAt, now)
    [] w.kind = "remove" -> removeRepoEntry(m, w.key, w.path)
    [] w.kind = "update" -> repoUpdateWrite(m, w.key, w.branch, w.remote, now)
    [] w.kind = "scan" -> repoScanWrite(m, w.found, w.defaultBranch, now)
    [] OTHER -> [save |-> FALSE, manifest |-> m]

(***************************************************************************)
(* withManifestLock (manifest.ts:126-174).  One action per await.          *)
(***************************************************************************)
\* manifest.ts:30 has 300; scaled down, the loop is the same
LOCK_MAX_ATTEMPTS == 3

\* manifest.ts:28 has 30000 ms; here in clock ticks
LOCK_STALE_MS == 1

NoLock == [exists |-> FALSE, owner |-> 0, age |-> 0]

\* a marker left behind by a holder that died, or put there by anyone else
ForeignLocks == {[exists |-> TRUE, owner |-> 0, age |-> 0]}

IdleLk ==
  [pc |-> "idle", attempt |-> 0, opens |-> 0, staleSeen |-> FALSE, backoffs |-> 0,
   outcome |-> "none", ranBody |-> FALSE, wrote |-> FALSE, w |-> NoWrite,
   next |-> createEmptyManifest, staleAt |-> 0, statGone |-> FALSE]

AcquirePcs == {"open", "stat", "unlinkStale", "sleep", "exhausted"}

BodyPcs == {"body", "write", "rename"}

DonePcs == {"returned", "threw", "failed", "errored"}

LoopTest_Unbounded(attempt) == IF attempt < attempt + 1 THEN "open" ELSE "exhausted"

\* manifest.ts:138, the loop test after attempt++
LoopTest(attempt) == IF attempt < LOCK_MAX_ATTEMPTS THEN "open" ELSE "exhausted"

\* manifest.ts:126-133
isLockStale == IF lock.exists THEN lock.age > LOCK_STALE_MS ELSE TRUE

\* withManifestLock(callback) is called with the write w as its callback:
\* manifest.ts:167-168, 135-138
withManifestLock(p, w) ==
  /\ lk[p].pc = "idle"
  /\ lk' = [lk EXCEPT ![p] = [IdleLk EXCEPT !.pc = LoopTest(0), !.w = w]]

\* manifest.ts:140-143: open(lockPath, "wx") succeeds; the callback starts
OpenCreates(p) ==
  /\ lk[p].pc = "open"
  /\ ~lock.exists
  /\ lock' = [exists |-> TRUE, owner |-> p, age |-> 0]
  /\ lk' = [lk EXCEPT ![p].pc = "body", ![p].opens = @ + 1, ![p].ranBody = TRUE]
  /\ UNCHANGED <<manifestFile, manifestTmp, clock, ioVars, toolVars>>

\* manifest.ts:144-149: open fails with EEXIST
OpenExists(p) ==
  /\ lk[p].pc = "open"
  /\ lock.exists
  /\ lk' = [lk EXCEPT ![p].pc = "stat", ![p].opens = @ + 1]
  /\ UNCHANGED <<manifestFile, manifestTmp, clock, lock, ioVars, toolVars>>

\* manifest.ts:146-148: open fails with another error, which is rethrown
OpenError(p) ==
  /\ lk[p].pc = "open"
  /\ lk' = [lk EXCEPT ![p].pc = "errored", ![p].opens = @ + 1]
  /\ UNCHANGED <<manifestFile, manifestTmp, clock, lock, ioVars, toolVars>>

\* manifest.ts:151, 126-133: stat of the marker
StatLock(p) ==
  /\ lk[p].pc = "stat"
  /\ lk' = [lk EXCEPT ![p].pc = IF isLockStale THEN "unlinkStale" ELSE "sleep",
                      ![p].staleSeen = isLockStale,
                      ![p].statGone = ~lock.exists]
  /\ UNCHANGED <<manifestFile, manifestTmp, clock, lock, ioVars, toolVars>>

\* manifest.ts:152-153: unlink, continue
UnlinkStale(p) ==
  /\ lk[p].pc = "unlinkStale"
  /\ lock' = NoLock
  /\ lk' = [lk EXCEPT ![p].pc = LoopTest(lk[p].attempt + 1), ![p].attempt = @ + 1,
                      ![p].staleAt = lk[p].attempt + 1]
  /\ UNCHANGED <<manifestFile, manifestTmp, clock, ioVars, toolVars>>

\* manifest.ts:156: Bun.sleep, then the next iteration
SleepRetry(p) ==
  /\ lk[p].pc = "sleep"
  /\ lk' = [lk EXCEPT ![p].pc = LoopTest(lk[p].attempt + 1), ![p].attempt = @ + 1,
                      ![p].backoffs = @ + 1]
  /\ UNCHANGED <<manifestFile, manifestTmp, clock, lock, ioVars, toolVars>>

AcquireExhausted_KeepsMarker(p) ==
  /\ lk[p].pc = "exhausted"
  /\ lk' = [lk EXCEPT ![p].pc = "failed", ![p].outcome = "failed"]
  /\ UNCHANGED <<manifestFile, manifestTmp, clock, lock, ioVars, toolVars>>

\* manifest.ts:159-160: unlink, throw "Failed to acquire manifest lock"
AcquireExhausted(p) ==
  /\ lk[p].pc = "exhausted"
  /\ lock' = NoLock
  /\ lk' = [lk EXCEPT ![p].pc = "failed", ![p].outcome = "failed"]
  /\ UNCHANGED <<manifestFile, manifestTmp, clock, ioVars, toolVars>>

\* a body that applies its write to a manifest it did not load
BodyLoad_SkipsLoad(p) ==
  /\ lk[p].pc = "body"
  /\ LET r == ApplyWrite(lk[p].w, createEmptyManifest, nowIso)
     IN lk' = [lk EXCEPT ![p].pc = IF r.save THEN "write" ELSE "release",
                         ![p].next = r.manifest,
                         ![p].outcome = IF r.save THEN "none" ELSE "returned"]
  /\ UNCHANGED <<manifestFile, manifestTmp, clock, lock, ioVars, toolVars>>

\* the callback: loadManifest, the change, and either the early return or on
\* to saveManifest (index.ts:2350-2364 and the like)
BodyLoad(p) ==
  /\ lk[p].pc = "body"
  /\ LET r == ApplyWrite(lk[p].w, loadManifest(manifestFile, nowIso).manifest, nowIso)
     IN lk' = [lk EXCEPT ![p].pc = IF r.save THEN "write" ELSE "release",
                         ![p].next = r.manifest,
                         ![p].outcome = IF r.save THEN "none" ELSE "returned"]
  /\ UNCHANGED <<manifestFile, manifestTmp, clock, lock, ioVars, toolVars>>

\* saveManifest, manifest.ts:120-122
BodyWrite(p) ==
  /\ lk[p].pc = "write"
  /\ manifestTmp' = SavedText(lk[p].next, nowIso)
  /\ lk' = [lk EXCEPT ![p].pc = "rename"]
  /\ UNCHANGED <<manifestFile, clock, lock, ioVars, toolVars>>

\* saveManifest, manifest.ts:123; rename raises ENOENT if the tmp file is gone
BodyRename(p) ==
  /\ lk[p].pc = "rename"
  /\ IF manifestTmp.exists
     THEN /\ manifestFile' = manifestTmp
          /\ manifestTmp' = NoFile
          /\ lk' = [lk EXCEPT ![p].pc = "release", ![p].outcome = "returned",
                              ![p].wrote = TRUE]
     ELSE /\ lk' = [lk EXCEPT ![p].pc = "release", ![p].outcome = "threw"]
          /\ UNCHANGED <<manifestFile, manifestTmp>>
  /\ UNCHANGED <<clock, lock, ioVars, toolVars>>

\* the callback raises (manifest.test.ts:169-179)
BodyThrows(p) ==
  /\ lk[p].pc = "body"
  /\ lk' = [lk EXCEPT ![p].pc = "release", ![p].outcome = "threw"]
  /\ UNCHANGED <<manifestFile, manifestTmp, clock, lock, ioVars, toolVars>>

withManifestLock_NoFinally(p) ==
  /\ lk[p].pc = "release"
  /\ lock' = IF lk[p].outcome = "threw" THEN lock ELSE NoLock
  /\ lk' = [lk EXCEPT ![p].pc = lk[p].outcome]
  /\ UNCHANGED <<manifestFile, manifestTmp, clock, ioVars, toolVars>>

\* manifest.ts:171-173, 163-165: finally { releaseLock() }
releaseLock(p) ==
  /\ lk[p].pc = "release"
  /\ lock' = NoLock
  /\ lk' = [lk EXCEPT ![p].pc = lk[p].outcome]
  /\ UNCHANGED <<manifestFile, manifestTmp, clock, ioVars, toolVars>>

\* time passes: the marker ages (Date.now() - mtimeMs grows)
Tick ==
  /\ lock.exists
  /\ lock.age <= LOCK_STALE_MS
  /\ lock' = [lock EXCEPT !.age = @ + 1]
  /\ UNCHANGED <<manifestFile, manifestTmp, clock, lk, ioVars, toolVars>>

(***************************************************************************)
(* SpecLock: the helpers touchRepo and removeRepoEntry called              *)
(* concurrently, each one withManifestLock call.                           *)
(***************************************************************************)
WidgetsPath == "/cache/acme/widgets"

HelperWrites ==
  { [NoWrite EXCEPT !.kind = "touch", !.key = "acme/widgets"],
    [NoWrite EXCEPT !.kind = "remove", !.key = "acme/widgets", !.path = WidgetsPath] }

\* a helper is called
HelperCall(p, w) ==
  /\ clock < MaxOps
  /\ clock' = clock + 1
  /\ withManifestLock(p, w)
  /\ UNCHANGED <<manifestFile, manifestTmp, lock, ioVars, toolVars>>

\* the helper's caller goes on; the process is free for another call
HelperDone(p) ==
  /\ lk[p].pc \in DonePcs
  /\ lk' = [lk EXCEPT ![p] = IdleLk]
  /\ UNCHANGED <<manifestFile, manifestTmp, clock, lock, ioVars, toolVars>>

AcquireStep(p) ==
  \/ OpenCreates(p)
  \/ OpenExists(p)
  \/ StatLock(p)
  \/ UnlinkStale(p)
  \/ SleepRetry(p)
  \/ AcquireExhausted(p)

BodyStep(p) ==
  \/ BodyLoad(p)
  \/ BodyWrite(p)
  \/ BodyRename(p)
  \/ releaseLock(p)


(***************************************************************************)
(* The directories and the remote.                                         *)
(***************************************************************************)
\* index.ts:2478: join(config.cacheDir, target.owner, target.repo)
CachePath(repoKey) == "/cache/" \o repoKey

\* a working tree of the user's, outside the cache root
UserTree == "/home/dev/widgets"

Paths == {CachePath(k) : k \in RepoKeys} \cup {UserTree}

\* a commit: the branch it was made on and its position there; position 0 is
\* a commit made locally, which the remote does not have
NoCommit == <<"", 0>>

\* no remote-tracking ref (origin/<branch>) at all
NoRefs == [b \in {} |-> 0]

Absent ==
  [kind |-> "absent", origin |-> "", branch |-> "", head |-> NoCommit, dirty |-> FALSE,
   refs |-> NoRefs]

\* a directory that is no git checkout: what a clone that failed left, or other files
Junk ==
  [kind |-> "junk", origin |-> "", branch |-> "", head |-> NoCommit, dirty |-> FALSE,
   refs |-> NoRefs]

\* part_003:39-47: what git clone --depth=1 --single-branch leaves when the
\* branch's tip on the remote is at position tip: the branch checked out at
\* that commit, a clean tree, and origin/<branch> as the only tracking ref
CheckoutAt(origin, branch, tip) ==
  [kind |-> "repo", origin |-> origin, branch |-> branch, head |-> <<branch, tip>>,
   dirty |-> FALSE, refs |-> (branch :> tip)]

Checkout(origin, branch) == CheckoutAt(origin, branch, 1)

\* the remote repository of the sessions: branches trunk and dev, HEAD on
\* trunk, every branch's tip at position 1
TrunkRemote == [head |-> "trunk", branches |-> {"trunk", "dev"}, tip |-> 1]

\* part_003:161: git fetch --depth=1 origin <branch> moves origin/<branch> to
\* the branch's tip on the remote
gitFetch(tree, branch, tip) ==
  [tree EXCEPT !.refs = (branch :> tip) @@ @]

\* part_003:163-167: git checkout <branch>, or checkout -B <branch>
\* origin/<branch>: a tree that is on the branch stays as it is, with its
\* commits and modifications; another branch is entered at origin/<branch>
gitCheckout(tree, branch) ==
  IF tree.branch = branch THEN tree
  ELSE [tree EXCEPT !.branch = branch, !.head = <<branch, tree.refs[branch]>>]

\* git reset that leaves the head and the modifications where they are
gitReset_KeepsLocal(tree, branch) == tree

\* part_003:169: git reset --hard origin/<branch>
gitReset(tree, branch) ==
  [tree EXCEPT !.head = <<branch, tree.refs[branch]>>, !.dirty = FALSE]

\* the branches of the remote repository and its symbolic HEAD
RemoteBranches == remoteRepo.branches

RemoteDefault == remoteRepo.head

\* index.ts:2121-2127 (DEFAULT_CONFIG)
DefaultBranch == "main"

UseHttps == TRUE

\* part_003:85-92
isGitRepo(path) == fs[path].kind = "repo"

\* part_003:94-102
getRepoRemote(path) ==
  IF fs[path].kind = "repo" /\ fs[path].origin # "" THEN fs[path].origin ELSE UNDEF

\* part_003:24-33 and index.ts:2133-2141, on sequences; UNDEF and "" are skipped
RECURSIVE uniqueValues_KeepsDuplicates(_)
\* a filter that drops the empty values only
uniqueValues_KeepsDuplicates(values) ==
  IF values = <<>> THEN <<>>
  ELSE LET front == uniqueValues_KeepsDuplicates(SubSeq(values, 1, Len(values) - 1))
           value == values[Len(values)]
       IN IF value \in {UNDEF, ""} THEN front ELSE Append(front, value)

RECURSIVE uniqueValues(_)
uniqueValues(values) ==
  IF values = <<>> THEN <<>>
  ELSE LET front == uniqueValues(SubSeq(values, 1, Len(values) - 1))
           value == values[Len(values)]
       IN IF value \in {UNDEF, ""} \/ \E i \in 1..Len(front) : front[i] = value
          THEN front
          ELSE Append(front, value)

\* scanner.ts:228-232: the working trees with an origin under the search roots
RECURSIVE scanLocalRepos(_)
scanLocalRepos(roots) ==
  IF roots = <<>> THEN <<>>
  ELSE LET path == Head(roots)
           rest == scanLocalRepos(Tail(roots))
       IN IF getRepoRemote(path) # UNDEF
          THEN <<[path |-> path, remote |-> fs[path].origin, branch |-> fs[path].branch]>> \o rest
          ELSE rest

(***************************************************************************)
(* parseRepoSpec (part_003:49-76).  A spec is a sequence of characters.      *)
(***************************************************************************)
\* the longest spec that is parsed
MaxSpecLen == 6

\* a letter, the two separators, and a white space character
Chars == {"a", "/", "@", " "}

WhiteSpace == {" "}

SpecInputs == UNION {[1..n -> Chars] : n \in 0..MaxSpecLen}

\* String.prototype.trim
RECURSIVE trimStart(_)
trimStart(s) ==
  IF s # <<>> /\ Head(s) \in WhiteSpace THEN trimStart(Tail(s)) ELSE s

RECURSIVE trimEnd(_)
trimEnd(s) ==
  IF s # <<>> /\ s[Len(s)] \in WhiteSpace THEN trimEnd(SubSeq(s, 1, Len(s) - 1)) ELSE s

trim(s) == trimEnd(trimStart(s))

\* String.prototype.indexOf, zero-based, -1 when c does not occur
indexOf(s, c) ==
  IF \E i \in 1..Len(s) : s[i] = c
  THEN (CHOOSE i \in 1..Len(s) : s[i] = c /\ \A j \in 1..(i - 1) : s[j] # c) - 1
  ELSE -1

\* String.prototype.slice(from, to) and slice(from), zero-based
slice(s, from, to) == SubSeq(s, from + 1, to)

sliceFrom(s, from) == SubSeq(s, from + 1, Len(s))

includes(s, c) == \E i \in 1..Len(s) : s[i] = c

\* the messages of the four Errors, part_003:56, 61, 68, 72
BranchEmpty == "Invalid repo spec: branch cannot be empty after @"

BadFormat == "Invalid repo spec: must be in format \"owner/repo\" or \"owner/repo@branch\""

EmptyPart == "Invalid repo spec: owner and repo cannot be empty"

ExtraSlash == "Invalid repo spec: repo name cannot contain \"/\""

\* branch: string | null
NullBranch == [null |-> TRUE, s |-> <<>>]

BranchOf(s) == [null |-> FALSE, s |-> s]

NoSpec ==
  [called |-> FALSE, input |-> <<>>, threw |-> FALSE, reason |-> "", owner |-> <<>>,
   repo |-> <<>>, branch |-> NullBranch]

Throws(spec, reason) ==
  [NoSpec EXCEPT !.called = TRUE, !.input = spec, !.threw = TRUE, !.reason = reason]

\* a parse that splits at the last '@'
parseRepoSpec_SplitsAtLastAt(spec) ==
  LET trimmed == trim(spec)
      atIndex == IF includes(trimmed, "@")
                 THEN (CHOOSE i \in 1..Len(trimmed) :
                         trimmed[i] = "@" /\ \A j \in (i + 1)..Len(trimmed) : trimmed[j] # "@") - 1
                 ELSE -1
      repoPath == IF atIndex = -1 THEN trimmed ELSE slice(trimmed, 0, atIndex)
      branch == IF atIndex = -1 THEN NullBranch ELSE BranchOf(sliceFrom(trimmed, atIndex + 1))
      slashIndex == indexOf(repoPath, "/")
      owner == slice(repoPath, 0, slashIndex)
      repo == sliceFrom(repoPath, slashIndex + 1)
  IN IF atIndex # -1 /\ branch.s = <<>> THEN Throws(spec, BranchEmpty)
     ELSE IF slashIndex = -1 THEN Throws(spec, BadFormat)
     ELSE IF owner = <<>> \/ repo = <<>> THEN Throws(spec, EmptyPart)
     ELSE IF includes(repo, "/") THEN Throws(spec, ExtraSlash)
     ELSE [NoSpec EXCEPT !.called = TRUE, !.input = spec, !.owner = owner, !.repo = repo,
                         !.branch = branch]

\* a parse without the check of part_003:71-73
parseRepoSpec_AllowsExtraSlash(spec) ==
  LET trimmed == trim(spec)
      atIndex == indexOf(trimmed, "@")
      repoPath == IF atIndex = -1 THEN trimmed ELSE slice(trimmed, 0, atIndex)
      branch == IF atIndex = -1 THEN NullBranch ELSE BranchOf(sliceFrom(trimmed, atIndex + 1))
      slashIndex == indexOf(repoPath, "/")
      owner == slice(repoPath, 0, slashIndex)
      repo == sliceFrom(repoPath, slashIndex + 1)
  IN IF atIndex # -1 /\ branch.s = <<>> THEN Throws(spec, BranchEmpty)
     ELSE IF slashIndex = -1 THEN Throws(spec, BadFormat)
     ELSE IF owner = <<>> \/ repo = <<>> THEN Throws(spec, EmptyPart)
     ELSE [NoSpec EXCEPT !.called = TRUE, !.input = spec, !.owner = owner, !.repo = repo,
                         !.branch = branch]

\* part_003:49-76
parseRepoSpec(spec) ==
  LET trimmed == trim(spec)
      atIndex == indexOf(trimmed, "@")
      repoPath == IF atIndex = -1 THEN trimmed ELSE slice(trimmed, 0, atIndex)
      branch == IF atIndex = -1 THEN NullBranch ELSE BranchOf(sliceFrom(trimmed, atIndex + 1))
      slashIndex == indexOf(repoPath, "/")
      owner == slice(repoPath, 0, slashIndex)
      repo == sliceFrom(repoPath, slashIndex + 1)
  IN IF atIndex # -1 /\ branch.s = <<>> THEN Throws(spec, BranchEmpty)
     ELSE IF slashIndex = -1 THEN Throws(spec, BadFormat)
     ELSE IF owner = <<>> \/ repo = <<>> THEN Throws(spec, EmptyPart)
     ELSE IF includes(repo, "/") THEN Throws(spec, ExtraSlash)
     ELSE [NoSpec EXCEPT !.called = TRUE, !.input = spec, !.owner = owner, !.repo = repo,
                         !.branch = branch]

(***************************************************************************)
(* The tool operations of index.ts.  One action per await that reads or    *)
(* writes the manifest, the lock marker or a directory.                    *)
(***************************************************************************)
\* the number of tool operations started in one behaviour
MaxRequests == 2

\* no error raised by cloneWithProtocolFallback
NoError == [key |-> UNDEF, errors |-> <<>>]

NoResult ==
  [kind |-> "none", type |-> UNDEF, path |-> UNDEF, branch |-> UNDEF, status |-> UNDEF,
   valid |-> FALSE, error |-> NoError]

IdleSt ==
  [pc |-> "idle", op |-> "none", key |-> UNDEF, branch |-> UNDEF, explicit |-> UNDEF,
   force |-> FALSE, confirm |-> FALSE, existing |-> NoEntry, urls |-> <<>>, cands |-> <<>>,
   mode |-> "none", swPath |-> UNDEF, swBranch |-> UNDEF, cont |-> "none",
   cloned |-> UNDEF, remote |-> UNDEF, acted |-> FALSE, fresh |-> FALSE,
   attemptErrors |-> <<>>, errors |-> <<>>, tried |-> <<>>,
   parsed |-> NoSpec, result |-> NoResult]

\* index.ts:2237-2248, given the parsed spec (key, explicit branch or UNDEF)
resolveRepoTarget(repoKey, explicit, defaultBranch) ==
  [IdleSt EXCEPT !.key = repoKey,
                 !.branch = IF explicit # UNDEF THEN explicit ELSE defaultBranch,
                 !.explicit = explicit]

Manifest == loadManifest(manifestFile, nowIso).manifest

\* a local entry of the manifest on disk points at path
LocalEntryAt(path) ==
  \E k \in DOMAIN Manifest.repos :
    Manifest.repos[k].type = "local" /\ Manifest.repos[k].path = path

\* a mutating action (clone, fetch/checkout/reset, recursive delete) is applied
\* to path; a command that fails without effect is not counted
Mutates(path) ==
  mutatedLocal' = IF LocalEntryAt(path) THEN mutatedLocal \cup {path} ELSE mutatedLocal

\* a withManifestLock call made from inside an operation
LockCall(p, w) == [lk EXCEPT ![p] = [IdleLk EXCEPT !.pc = LoopTest(0), !.w = w]]

LockDone(p) == lk[p].pc \in DonePcs

Touch(key, branch) == [NoWrite EXCEPT !.kind = "touch", !.key = key, !.branch = branch]

Upsert(key, path, branch, remote, clonedAt) ==
  [NoWrite EXCEPT !.kind = "upsert", !.key = key, !.path = path, !.branch = branch,
                  !.remote = remote, !.clonedAt = clonedAt]

Remove(key, path) == [NoWrite EXCEPT !.kind = "remove", !.key = key, !.path = path]

\* the operation has invoked a clone, a fetch/checkout/reset or a recursive
\* delete (whether or not the command had an effect)
Acts(s) == [s EXCEPT !.acted = TRUE]

\* the operation is over: its locals are gone, its request and result stay
Over(s, result) ==
  [IdleSt EXCEPT !.pc = "done", !.op = s.op, !.key = s.key, !.branch = s.branch,
                 !.explicit = s.explicit, !.force = s.force, !.confirm = s.confirm,
                 !.acted = s.acted, !.result = result]

Failed(s) == Over(s, [NoResult EXCEPT !.kind = "error"])

Message(s) == Over(s, [NoResult EXCEPT !.kind = "message"])

\* the result ensureCachedRepo returns, and whether at that moment the
\* directory is a checkout on the branch returned
Returned(s, type, path, branch, status) ==
  Over(s, [kind |-> "ok", type |-> type, path |-> path, branch |-> branch,
           status |-> status,
           valid |-> fs[path].kind = "repo" /\ fs[path].branch = branch,
           error |-> NoError])

\* part_003:119-133: cloneRepo(url, ...) starts for the first of s.urls
EnterCloneRepo(s) ==
  IF s.explicit # UNDEF
  THEN [s EXCEPT !.pc = "c_cleanup", !.mode = "explicit", !.cands = <<s.explicit>>,
                 !.attemptErrors = <<>>]
  ELSE [s EXCEPT !.pc = "c_lsremote", !.mode = "named", !.cands = <<>>,
                 !.attemptErrors = <<>>]

\* a fallback that starts with the scheme that is not preferred
cloneWithProtocolFallback_OtherSchemeFirst(s) ==
  EnterCloneRepo([s EXCEPT !.urls = uniqueValues(<<buildGitUrl(s.key, ~UseHttps),
                                                   buildGitUrl(s.key, UseHttps)>>)])

\* index.ts:2421-2428
cloneWithProtocolFallback(s) ==
  EnterCloneRepo([s EXCEPT !.urls = uniqueValues(<<buildGitUrl(s.key, UseHttps),
                                                   buildGitUrl(s.key, ~UseHttps)>>)])

\* part_003:128, 152-156: the message of the error cloneRepo raises, as its
\* parts: the explicit branch it names, or the reasons of the named attempts
\* in order followed by the final error of the plain clone
CloneError(s) ==
  IF s.mode = "explicit"
  THEN [kind |-> "branch", branch |-> Head(s.cands), details |-> <<>>]
  ELSE IF s.attemptErrors # <<>>
       THEN [kind |-> "fallbacks", branch |-> UNDEF, details |-> s.attemptErrors]
       ELSE [kind |-> "plain", branch |-> UNDEF, details |-> <<>>]

\* a fallback that tries the first URL a second time instead of the other
NextUrl_RetriesSameUrl(s) ==
  LET errors == Append(s.errors, [url |-> Head(s.urls), message |-> CloneError(s)])
  IN IF Len(s.urls) > 1
     THEN EnterCloneRepo([s EXCEPT !.urls = <<Head(@)>>, !.errors = errors])
     ELSE Over(s, [NoResult EXCEPT !.kind = "error",
                                   !.error = [key |-> s.key, errors |-> errors]])

\* a fallback whose error keeps the reason of the last URL only
NextUrl_KeepsLastReason(s) ==
  LET errors == <<[url |-> Head(s.urls), message |-> CloneError(s)]>>
  IN IF Len(s.urls) > 1
     THEN EnterCloneRepo([s EXCEPT !.urls = Tail(@), !.errors = errors])
     ELSE Over(s, [NoResult EXCEPT !.kind = "error",
                                   !.error = [key |-> s.key, errors |-> errors]])

\* index.ts:2435-2440: cloneRepo raised: errors.push(url: message), then the
\* next URL, or "Unable to clone <key>. <errors joined>"
NextUrl(s) ==
  LET errors == Append(s.errors, [url |-> Head(s.urls), message |-> CloneError(s)])
  IN IF Len(s.urls) > 1
     THEN EnterCloneRepo([s EXCEPT !.urls = Tail(@), !.errors = errors])
     ELSE Over(s, [NoResult EXCEPT !.kind = "error",
                                   !.error = [key |-> s.key, errors |-> errors]])

\* switchBranch(path, branch) starts; cont is where the caller goes on
EnterSwitch(s, path, branch, cont) ==
  [s EXCEPT !.pc = "sw_checkout", !.swPath = path, !.swBranch = branch, !.cont = cont]

\* ---- ensureCachedRepo, index.ts:2443-2514 (called by repo_clone, 2639-2655)

\* index.ts:2444-2457: loadManifest and the choice of the case
StartEnsure(p, key, explicit, force) ==
  /\ st[p].pc = "idle" /\ lk[p].pc = "idle"
  /\ clock < MaxRequests
  /\ clock' = clock + 1
  /\ LET existing == EntryOf(Manifest, key)
         s == [resolveRepoTarget(key, explicit, DefaultBranch)
                 EXCEPT !.op = "ensure", !.force = force, !.existing = existing]
     IN IF existing.type = "local"
        THEN /\ lk' = LockCall(p, Touch(key, UNDEF))
             /\ st' = [st EXCEPT ![p] = [s EXCEPT !.pc = "e_local"]]
        ELSE /\ lk' = lk
             /\ st' = [st EXCEPT ![p] =
                         [s EXCEPT !.pc = IF existing.type = "cached" /\ ~force
                                          THEN "e_isrepo" ELSE "e_inspect"]]
  /\ UNCHANGED <<manifestFile, manifestTmp, lock, fs, mutatedLocal, ioVars, remoteRepo>>

\* index.ts:2448-2454: touchRepo is back; the local entry is returned
EnsureLocal(p) ==
  /\ st[p].pc = "e_local" /\ LockDone(p)
  /\ st' = [st EXCEPT ![p] =
              IF lk[p].pc = "returned"
              THEN Returned(st[p], "local", st[p].existing.path,
                            st[p].existing.currentBranch, "cached")
              ELSE Failed(st[p])]
  /\ lk' = [lk EXCEPT ![p] = IdleLk]
  /\ UNCHANGED <<manifestFile, manifestTmp, clock, lock, fs, mutatedLocal, ioVars, remoteRepo>>

\* a cache hit that fetches and resets whatever branch is asked for
EnsureIsRepo_AlwaysSwitches(p) ==
  /\ st[p].pc = "e_isrepo"
  /\ LET s == st[p]
     IN IF isGitRepo(s.existing.path)
        THEN /\ st' = [st EXCEPT ![p] = EnterSwitch(s, s.existing.path, s.branch, "e_touch")]
             /\ lk' = lk
        ELSE /\ st' = [st EXCEPT ![p].pc = "e_removed"]
             /\ lk' = LockCall(p, Remove(s.key, s.existing.path))
  /\ UNCHANGED <<manifestFile, manifestTmp, clock, lock, fs, mutatedLocal, ioVars, remoteRepo>>

\* index.ts:2458-2465, 2475: isGitRepo(existing.path)
EnsureIsRepo(p) ==
  /\ st[p].pc = "e_isrepo"
  /\ LET s == st[p]
     IN IF isGitRepo(s.existing.path)
        THEN IF s.existing.currentBranch # s.branch
             THEN /\ st' = [st EXCEPT ![p] = EnterSwitch(s, s.existing.path, s.branch, "e_touch")]
                  /\ lk' = lk
             ELSE /\ st' = [st EXCEPT ![p].pc = "e_touched"]
                  /\ lk' = LockCall(p, Touch(s.key, UNDEF))
        ELSE /\ st' = [st EXCEPT ![p].pc = "e_removed"]
             /\ lk' = LockCall(p, Remove(s.key, s.existing.path))
  /\ UNCHANGED <<manifestFile, manifestTmp, clock, lock, fs, mutatedLocal, ioVars, remoteRepo>>

\* index.ts:2465, after switchBranch: touchRepo(repoKey, branch)
EnsureTouch(p) ==
  /\ st[p].pc = "e_touch"
  /\ st' = [st EXCEPT ![p].pc = "e_touched"]
  /\ lk' = LockCall(p, Touch(st[p].key, st[p].branch))
  /\ UNCHANGED <<manifestFile, manifestTmp, clock, lock, fs, mutatedLocal, ioVars, remoteRepo>>

\* index.ts:2467-2472
EnsureTouched(p) ==
  /\ st[p].pc = "e_touched" /\ LockDone(p)
  /\ st' = [st EXCEPT ![p] =
              IF lk[p].pc = "returned"
              THEN Returned(st[p], "cached", st[p].existing.path, st[p].branch, "cached")
              ELSE Failed(st[p])]
  /\ lk' = [lk EXCEPT ![p] = IdleLk]
  /\ UNCHANGED <<manifestFile, manifestTmp, clock, lock, fs, mutatedLocal, ioVars, remoteRepo>>

\* index.ts:2475: removeRepoEntry is back
EnsureRemoved(p) ==
  /\ st[p].pc = "e_removed" /\ LockDone(p)
  /\ st' = [st EXCEPT ![p] =
              IF lk[p].pc = "returned" THEN [st[p] EXCEPT !.pc = "e_inspect"]
              ELSE Failed(st[p])]
  /\ lk' = [lk EXCEPT ![p] = IdleLk]
  /\ UNCHANGED <<manifestFile, manifestTmp, clock, lock, fs, mutatedLocal, ioVars, remoteRepo>>

\* an inspection that adopts a matching directory also when force is set
EnsureInspect_ReusesWhenForced(p) ==
  /\ st[p].pc = "e_inspect"
  /\ LET s == st[p]
         destPath == CachePath(s.key)
         remote == getRepoRemote(destPath)
         reusable == isGitRepo(destPath)
     IN st' = [st EXCEPT ![p] =
                 IF fs[destPath].kind = "absent"
                 THEN cloneWithProtocolFallback([s EXCEPT !.fresh = s.existing = NoEntry])
                 ELSE IF reusable /\ repoRemoteMatches(remote, s.key)
                      THEN IF fs[destPath].branch # s.branch
                           THEN EnterSwitch([s EXCEPT !.remote = remote], destPath, s.branch,
                                            "e_adopt")
                           ELSE [s EXCEPT !.pc = "e_adopt", !.remote = remote]
                      ELSE [s EXCEPT !.pc = "e_rm"]]
  /\ UNCHANGED <<manifestFile, manifestTmp, clock, lock, lk, fs, mutatedLocal, ioVars, remoteRepo>>

\* index.ts:2478-2490: existsSync, isGitRepo, getRepoRemote, getRepoInfo of destPath
\* index.ts:2478-2503 with every directory found at the cache path deleted
EnsureInspect_NeverAdopts(p) ==
  /\ st[p].pc = "e_inspect"
  /\ LET s == st[p]
         destPath == CachePath(s.key)
     IN st' = [st EXCEPT ![p] =
                 IF fs[destPath].kind = "absent"
                 THEN cloneWithProtocolFallback([s EXCEPT !.fresh = s.existing = NoEntry])
                 ELSE [s EXCEPT !.pc = "e_rm"]]
  /\ UNCHANGED <<manifestFile, manifestTmp, clock, lock, lk, fs, mutatedLocal, ioVars, remoteRepo>>

EnsureInspect(p) ==
  /\ st[p].pc = "e_inspect"
  /\ LET s == st[p]
         destPath == CachePath(s.key)
         remote == getRepoRemote(destPath)
         reusable == ~s.force /\ isGitRepo(destPath)
     IN st' = [st EXCEPT ![p] =
                 IF fs[destPath].kind = "absent"
                 THEN cloneWithProtocolFallback([s EXCEPT !.fresh = s.existing = NoEntry])
                 ELSE IF reusable /\ repoRemoteMatches(remote, s.key)
                      THEN IF fs[destPath].branch # s.branch
                           THEN EnterSwitch([s EXCEPT !.remote = remote], destPath, s.branch,
                                            "e_adopt")
                           ELSE [s EXCEPT !.pc = "e_adopt", !.remote = remote]
                      ELSE [s EXCEPT !.pc = "e_rm"]]
  /\ UNCHANGED <<manifestFile, manifestTmp, clock, lock, lk, fs, mutatedLocal, ioVars, remoteRepo>>

\* index.ts:2492: upsertCachedRepoEntry for the adopted directory
EnsureAdopt(p) ==
  /\ st[p].pc = "e_adopt"
  /\ st' = [st EXCEPT ![p].pc = "e_adopted"]
  /\ lk' = LockCall(p, Upsert(st[p].key, CachePath(st[p].key), st[p].branch, st[p].remote,
                              UNDEF))
  /\ UNCHANGED <<manifestFile, manifestTmp, clock, lock, fs, mutatedLocal, ioVars, remoteRepo>>

\* index.ts:2493-2498
EnsureAdopted(p) ==
  /\ st[p].pc = "e_adopted" /\ LockDone(p)
  /\ st' = [st EXCEPT ![p] =
              IF lk[p].pc = "returned"
              THEN Returned(st[p], "cached", CachePath(st[p].key), st[p].branch, "reused")
              ELSE Failed(st[p])]
  /\ lk' = [lk EXCEPT ![p] = IdleLk]
  /\ UNCHANGED <<manifestFile, manifestTmp, clock, lock, fs, mutatedLocal, ioVars, remoteRepo>>

\* index.ts:2502: rm(destPath, recursive), then cloneWithProtocolFallback
EnsureRm(p) ==
  /\ st[p].pc = "e_rm"
  /\ fs' = [fs EXCEPT ![CachePath(st[p].key)] = Absent]
  /\ Mutates(CachePath(st[p].key))
  /\ st' = [st EXCEPT ![p] = cloneWithProtocolFallback(Acts(st[p]))]
  /\ UNCHANGED <<manifestFile, manifestTmp, clock, lock, lk, ioVars, remoteRepo>>

\* part_003:132-133: getRemoteDefaultBranch (null when ls-remote fails)
CloneLsRemote(p) ==
  /\ st[p].pc = "c_lsremote"
  /\ \E remoteDefault \in {RemoteDefault, UNDEF} :
       st' = [st EXCEPT ![p].pc = "c_cleanup",
                        ![p].cands = uniqueValues(<<remoteDefault, "main", "master">>)]
  /\ UNCHANGED <<manifestFile, manifestTmp, clock, lock, lk, fs, mutatedLocal, ioVars, remoteRepo>>

\* part_003:122, 137, 146: cleanupClonePath before an attempt
CloneCleanup(p) ==
  /\ st[p].pc = "c_cleanup"
  /\ fs' = [fs EXCEPT ![CachePath(st[p].key)] = Absent]
  /\ Mutates(CachePath(st[p].key))
  /\ st' = [st EXCEPT ![p].pc = "c_clone", ![p].acted = TRUE]
  /\ UNCHANGED <<manifestFile, manifestTmp, clock, lock, lk, ioVars, remoteRepo>>

\* the git clone command in flight: its URL and the branch it names, "HEAD"
\* for the plain clone of part_003:148
Attempt(s) ==
  <<Head(s.urls), IF s.mode = "default" THEN "HEAD" ELSE Head(s.cands)>>

\* part_003:124-125, 139-140, 148-149: git clone succeeds.  It needs an empty
\* destination; a named branch must exist on the remote; the plain clone
\* checks out the remote's HEAD.
CloneSucceeds(p) ==
  /\ st[p].pc = "c_clone"
  /\ LET s == st[p]
         destPath == CachePath(s.key)
         branch == IF s.mode = "default" THEN RemoteDefault ELSE Head(s.cands)
     IN /\ fs[destPath].kind = "absent"
        /\ branch \in RemoteBranches
        /\ fs' = [fs EXCEPT ![destPath] = CheckoutAt(Head(s.urls), branch, remoteRepo.tip)]
        /\ Mutates(destPath)
        /\ st' = [st EXCEPT ![p].pc = "e_upsert", ![p].cloned = branch,
                            ![p].remote = Head(s.urls), ![p].acted = TRUE,
                            ![p].attemptErrors = <<>>, ![p].errors = <<>>,
                            ![p].tried = <<>>]
  /\ UNCHANGED <<manifestFile, manifestTmp, clock, lock, lk, ioVars, remoteRepo>>

\* part_003:126, 141-143, 150: git clone fails, leaving nothing or a partial
\* directory; the next candidate, the plain clone, or the cleanup before the throw
CloneFails(p) ==
  /\ st[p].pc = "c_clone"
  /\ LET s == st[p]
         destPath == CachePath(s.key)
     IN /\ \E left \in {fs[destPath], Junk} :
             /\ left = Junk => fs[destPath].kind = "absent"
             /\ fs' = [fs EXCEPT ![destPath] = left]
             /\ IF left = fs[destPath] THEN mutatedLocal' = mutatedLocal
                ELSE Mutates(destPath)
        /\ st' = [st EXCEPT ![p] =
                    LET a == [s EXCEPT !.tried = Append(@, Attempt(s))]
                    IN IF s.mode = "named"
                       THEN LET n == [a EXCEPT !.attemptErrors = Append(@, Head(s.cands))]
                            IN IF Len(s.cands) > 1
                               THEN [n EXCEPT !.pc = "c_cleanup", !.cands = Tail(@)]
                               ELSE [n EXCEPT !.pc = "c_cleanup", !.cands = <<>>,
                                              !.mode = "default"]
                       ELSE [a EXCEPT !.pc = "c_failcleanup"]]
  /\ UNCHANGED <<manifestFile, manifestTmp, clock, lock, lk, ioVars, remoteRepo>>

\* a cloneRepo that raises without the cleanup of the destination
CloneFailCleanup_LeavesResidue(p) ==
  /\ st[p].pc = "c_failcleanup"
  /\ st' = [st EXCEPT ![p] = NextUrl(Acts(st[p]))]
  /\ UNCHANGED <<manifestFile, manifestTmp, clock, lock, lk, fs, mutatedLocal, ioVars, remoteRepo>>

\* part_003:127-128, 151-156: cleanupClonePath, then the throw
CloneFailCleanup(p) ==
  /\ st[p].pc = "c_failcleanup"
  /\ fs' = [fs EXCEPT ![CachePath(st[p].key)] = Absent]
  /\ Mutates(CachePath(st[p].key))
  /\ st' = [st EXCEPT ![p] = NextUrl(Acts(st[p]))]
  /\ UNCHANGED <<manifestFile, manifestTmp, clock, lock, lk, ioVars, remoteRepo>>

\* an upsert of the cloned entry that saves the manifest without the lock
EnsureUpsert_WritesUnlocked(p) ==
  /\ st[p].pc = "e_upsert"
  /\ st' = [st EXCEPT ![p].pc = "e_upserted"]
  /\ manifestFile' =
       SavedText(upsertCachedRepoEntry(loadManifest(manifestFile, nowIso).manifest,
                                       st[p].key, CachePath(st[p].key), st[p].cloned,
                                       st[p].remote, nowIso, nowIso).manifest, nowIso)
  /\ lk' = [lk EXCEPT ![p].pc = "returned"]
  /\ UNCHANGED <<manifestTmp, clock, lock, fs, mutatedLocal, ioVars, remoteRepo>>

\* index.ts:2506: upsertCachedRepoEntry(..., nowIso())
EnsureUpsert(p) ==
  /\ st[p].pc = "e_upsert"
  /\ st' = [st EXCEPT ![p].pc = "e_upserted"]
  /\ lk' = LockCall(p, Upsert(st[p].key, CachePath(st[p].key), st[p].cloned, st[p].remote,
                              nowIso))
  /\ UNCHANGED <<manifestFile, manifestTmp, clock, lock, fs, mutatedLocal, ioVars, remoteRepo>>

\* index.ts:2508-2513
EnsureUpserted(p) ==
  /\ st[p].pc = "e_upserted" /\ LockDone(p)
  /\ st' = [st EXCEPT ![p] =
              IF lk[p].pc = "returned"
              THEN Returned(st[p], "cached", CachePath(st[p].key), st[p].cloned, "cloned")
              ELSE Failed(st[p])]
  /\ lk' = [lk EXCEPT ![p] = IdleLk]
  /\ UNCHANGED <<manifestFile, manifestTmp, clock, lock, fs, mutatedLocal, ioVars, remoteRepo>>

\* ---- switchBranch, part_003:160-170

\* part_003:161-167: fetch and checkout succeed: the branch is checked out
SwitchCheckout(p) ==
  /\ st[p].pc = "sw_checkout"
  /\ fs[st[p].swPath].kind = "repo"
  /\ st[p].swBranch \in RemoteBranches
  /\ fs' = [fs EXCEPT ![st[p].swPath] =
               gitCheckout(gitFetch(@, st[p].swBranch, remoteRepo.tip), st[p].swBranch)]
  /\ Mutates(st[p].swPath)
  /\ st' = [st EXCEPT ![p].pc = "sw_reset", ![p].acted = TRUE]
  /\ UNCHANGED <<manifestFile, manifestTmp, clock, lock, lk, ioVars, remoteRepo>>

\* part_003:169: reset --hard succeeds; switchBranch returns
SwitchReset(p) ==
  /\ st[p].pc = "sw_reset"
  /\ fs[st[p].swPath].kind = "repo"
  /\ st[p].swBranch \in DOMAIN fs[st[p].swPath].refs
  /\ fs' = [fs EXCEPT ![st[p].swPath] = gitReset(@, st[p].swBranch)]
  /\ Mutates(st[p].swPath)
  /\ st' = [st EXCEPT ![p].pc = st[p].cont, ![p].acted = TRUE]
  /\ UNCHANGED <<manifestFile, manifestTmp, clock, lock, lk, ioVars, remoteRepo>>

\* a git command of switchBranch fails (no such directory or branch, the
\* network, the index); switchBranch raises, and so does its caller
\* (index.ts:2461, 2489) or the caller reports it (2793-2795, 2853-2855)
SwitchFails(p) ==
  /\ st[p].pc \in {"sw_checkout", "sw_reset"}
  /\ st' = [st EXCEPT ![p] = Failed(Acts(st[p]))]
  /\ UNCHANGED <<manifestFile, manifestTmp, clock, lock, lk, fs, mutatedLocal, ioVars, remoteRepo>>

\* ---- repo_read, index.ts:2773-2803

\* index.ts:2781-2798
StartRead(p, key, explicit) ==
  /\ st[p].pc = "idle" /\ lk[p].pc = "idle"
  /\ clock < MaxRequests
  /\ clock' = clock + 1
  /\ LET entry == EntryOf(Manifest, key)
         s == [resolveRepoTarget(key, explicit, DefaultBranch)
                 EXCEPT !.op = "read", !.existing = entry]
     IN IF entry = NoEntry
        THEN /\ st' = [st EXCEPT ![p] = Message(s)]
             /\ lk' = lk
        ELSE IF entry.type = "cached" /\ entry.currentBranch # s.branch
             THEN /\ st' = [st EXCEPT ![p] = EnterSwitch(s, entry.path, s.branch, "r_touch")]
                  /\ lk' = lk
             ELSE /\ st' = [st EXCEPT ![p] = [s EXCEPT !.pc = "r_touched"]]
                  /\ lk' = LockCall(p, Touch(key, UNDEF))
  /\ UNCHANGED <<manifestFile, manifestTmp, lock, fs, mutatedLocal, ioVars, remoteRepo>>

\* index.ts:2792
ReadTouch(p) ==
  /\ st[p].pc = "r_touch"
  /\ st' = [st EXCEPT ![p].pc = "r_touched"]
  /\ lk' = LockCall(p, Touch(st[p].key, st[p].branch))
  /\ UNCHANGED <<manifestFile, manifestTmp, clock, lock, fs, mutatedLocal, ioVars, remoteRepo>>

\* index.ts:2800-2801: the files are read from entry.path
ReadTouched(p) ==
  /\ st[p].pc = "r_touched" /\ LockDone(p)
  /\ st' = [st EXCEPT ![p] =
              IF lk[p].pc = "returned"
              THEN Returned(st[p], st[p].existing.type, st[p].existing.path, st[p].branch,
                            "read")
              ELSE Failed(st[p])]
  /\ lk' = [lk EXCEPT ![p] = IdleLk]
  /\ UNCHANGED <<manifestFile, manifestTmp, clock, lock, fs, mutatedLocal, ioVars, remoteRepo>>

\* ---- repo_update, index.ts:2805-2857

\* index.ts:2812-2835: local entries get git status and touchRepo only
StartUpdate(p, key, explicit) ==
  /\ st[p].pc = "idle" /\ lk[p].pc = "idle"
  /\ clock < MaxRequests
  /\ clock' = clock + 1
  /\ LET entry == EntryOf(Manifest, key)
         s == [resolveRepoTarget(key, explicit, DefaultBranch)
                 EXCEPT !.op = "update", !.existing = entry]
     IN IF entry = NoEntry
        THEN /\ st' = [st EXCEPT ![p] = Message(s)]
             /\ lk' = lk
        ELSE IF entry.type = "local"
             THEN IF isGitRepo(entry.path)
                  THEN /\ st' = [st EXCEPT ![p] = [s EXCEPT !.pc = "u_written"]]
                       /\ lk' = LockCall(p, Touch(key, UNDEF))
                  ELSE /\ st' = [st EXCEPT ![p] = Failed(s)]
                       /\ lk' = lk
             ELSE /\ st' = [st EXCEPT ![p] =
                              IF s.branch # entry.currentBranch
                              THEN EnterSwitch(s, entry.path, s.branch, "u_info")
                              ELSE [s EXCEPT !.pc = "u_pull"]]
                  /\ lk' = lk
  /\ UNCHANGED <<manifestFile, manifestTmp, lock, fs, mutatedLocal, ioVars, remoteRepo>>

\* part_003:172-176: updateRepo (fetch, reset --hard origin/<current>) succeeds
updateRepo(p) ==
  /\ st[p].pc = "u_pull"
  /\ isGitRepo(st[p].existing.path)
  /\ LET path == st[p].existing.path
         currentBranch == fs[path].branch
         branch == IF currentBranch # "" THEN currentBranch ELSE "main"
     IN /\ branch \in RemoteBranches
        /\ fs' = [fs EXCEPT ![path] =
                     gitReset(gitCheckout(gitFetch(@, branch, remoteRepo.tip), branch),
                              branch)]
  /\ Mutates(st[p].existing.path)
  /\ st' = [st EXCEPT ![p].pc = "u_info", ![p].acted = TRUE]
  /\ UNCHANGED <<manifestFile, manifestTmp, clock, lock, lk, ioVars, remoteRepo>>

\* updateRepo raises; index.ts:2853-2855 reports it
UpdateRepoFails(p) ==
  /\ st[p].pc = "u_pull"
  /\ st' = [st EXCEPT ![p] = Failed(Acts(st[p]))]
  /\ UNCHANGED <<manifestFile, manifestTmp, clock, lock, lk, fs, mutatedLocal, ioVars, remoteRepo>>

\* index.ts:2837-2850, part_003:178-190: getRepoInfo, then the locked write
UpdateInfo(p) ==
  /\ st[p].pc = "u_info"
  /\ LET path == st[p].existing.path
     IN IF isGitRepo(path)
        THEN /\ st' = [st EXCEPT ![p].pc = "u_written"]
             /\ lk' = LockCall(p, [NoWrite EXCEPT
                        !.kind = "update", !.key = st[p].key,
                        !.branch = IF fs[path].branch # "" THEN fs[path].branch
                                   ELSE st[p].branch,
                        !.remote = fs[path].origin])
        ELSE /\ st' = [st EXCEPT ![p] = Failed(st[p])]
             /\ lk' = lk
  /\ UNCHANGED <<manifestFile, manifestTmp, clock, lock, fs, mutatedLocal, ioVars, remoteRepo>>

\* index.ts:2824, 2852
UpdateWritten(p) ==
  /\ st[p].pc = "u_written" /\ LockDone(p)
  /\ st' = [st EXCEPT ![p] =
              IF lk[p].pc = "returned"
              THEN Returned(st[p], st[p].existing.type, st[p].existing.path,
                            IF st[p].existing.type = "local"
                            THEN st[p].existing.currentBranch ELSE lk[p].w.branch,
                            "updated")
              ELSE Failed(st[p])]
  /\ lk' = [lk EXCEPT ![p] = IdleLk]
  /\ UNCHANGED <<manifestFile, manifestTmp, clock, lock, fs, mutatedLocal, ioVars, remoteRepo>>

\* ---- repo_remove, index.ts:2859-2888

\* index.ts:2866-2881
StartRemove(p, key, confirm) ==
  /\ st[p].pc = "idle" /\ lk[p].pc = "idle"
  /\ clock < MaxRequests
  /\ clock' = clock + 1
  /\ LET entry == EntryOf(Manifest, key)
         s == [resolveRepoTarget(key, UNDEF, DefaultBranch)
                 EXCEPT !.op = "remove", !.existing = entry, !.confirm = confirm]
     IN IF entry = NoEntry
        THEN /\ st' = [st EXCEPT ![p] = Message(s)]
             /\ lk' = lk
        ELSE IF entry.type = "local"
             THEN /\ st' = [st EXCEPT ![p] = [s EXCEPT !.pc = "x_removed"]]
                  /\ lk' = LockCall(p, Remove(key, entry.path))
             ELSE /\ st' = [st EXCEPT ![p] =
                              IF confirm THEN [s EXCEPT !.pc = "x_rm"]
                              ELSE Over(s, [NoResult EXCEPT !.kind = "confirmation-required",
                                                            !.type = entry.type,
                                                            !.path = entry.path])]
                  /\ lk' = lk
  /\ UNCHANGED <<manifestFile, manifestTmp, lock, fs, mutatedLocal, ioVars, remoteRepo>>

\* index.ts:2883-2884: rm(entry.path, recursive), then removeRepoEntry
RemoveRm(p) ==
  /\ st[p].pc = "x_rm"
  /\ fs' = [fs EXCEPT ![st[p].existing.path] = Absent]
  /\ Mutates(st[p].existing.path)
  /\ st' = [st EXCEPT ![p].pc = "x_removed", ![p].acted = TRUE]
  /\ lk' = LockCall(p, Remove(st[p].key, st[p].existing.path))
  /\ UNCHANGED <<manifestFile, manifestTmp, clock, lock, ioVars, remoteRepo>>

\* index.ts:2876, 2886
RemoveRemoved(p) ==
  /\ st[p].pc = "x_removed" /\ LockDone(p)
  /\ st' = [st EXCEPT ![p] =
              IF lk[p].pc = "returned"
              THEN Over(st[p], [NoResult EXCEPT !.kind = "removed",
                                                !.type = st[p].existing.type,
                                                !.path = st[p].existing.path])
              ELSE Failed(st[p])]
  /\ lk' = [lk EXCEPT ![p] = IdleLk]
  /\ UNCHANGED <<manifestFile, manifestTmp, clock, lock, fs, mutatedLocal, ioVars, remoteRepo>>

\* ---- repo_scan, index.ts:2890-2946

\* the search roots a scan is given: the user's tree, or also the cache root
ScanChoices == {<<UserTree>>, <<UserTree, CachePath("acme/widgets")>>}

\* index.ts:2897-2912
StartScan(p, roots) ==
  /\ st[p].pc = "idle" /\ lk[p].pc = "idle"
  /\ clock < MaxRequests
  /\ clock' = clock + 1
  /\ LET discovered == scanLocalRepos(roots)
         s == [IdleSt EXCEPT !.op = "scan"]
     IN IF discovered = <<>>
        THEN /\ st' = [st EXCEPT ![p] = Message(s)]
             /\ lk' = lk
        ELSE /\ st' = [st EXCEPT ![p] = [s EXCEPT !.pc = "s_written"]]
             /\ lk' = LockCall(p, [NoWrite EXCEPT !.kind = "scan", !.found = discovered,
                                                  !.defaultBranch = DefaultBranch])
  /\ UNCHANGED <<manifestFile, manifestTmp, lock, fs, mutatedLocal, ioVars, remoteRepo>>

\* index.ts:2944
ScanWritten(p) ==
  /\ st[p].pc = "s_written" /\ LockDone(p)
  /\ st' = [st EXCEPT ![p] =
              IF lk[p].pc = "returned" THEN Message(st[p]) ELSE Failed(st[p])]
  /\ lk' = [lk EXCEPT ![p] = IdleLk]
  /\ UNCHANGED <<manifestFile, manifestTmp, clock, lock, fs, mutatedLocal, ioVars, remoteRepo>>

(***************************************************************************)
(* The specifications.                                                     *)
(***************************************************************************)
vars ==
  <<manifestFile, manifestTmp, clock, io, lastSaved, lock, lk, fs, st, mutatedLocal,
    remoteRepo>>

NoTrees == [path \in Paths |-> Absent]

\* ---- SpecStore: saveManifest and loadManifest on the manifest file alone
InitStore ==
  /\ manifestFile \in ForeignFiles
  /\ manifestTmp = NoFile
  /\ clock = 0
  /\ io = [p \in Procs |-> IdleIo]
  /\ lastSaved = NoSave
  /\ lock = NoLock
  /\ lk = [p \in Procs |-> IdleLk]
  /\ fs = NoTrees
  /\ st = [p \in Procs |-> IdleSt]
  /\ mutatedLocal = {}
  /\ remoteRepo = TrunkRemote

NextStore ==
  \E p \in Procs :
    \/ \E m \in SampleManifests : SaveStart(p, m)
    \/ SaveWritePartial(p)
    \/ SaveWriteDone(p)
    \/ SaveRename(p)
    \/ LoadExists(p)
    \/ LoadText(p)
    \/ LoadReturn(p)

SpecStore == InitStore /\ [][NextStore]_vars

\* ---- SpecLock: the locked helpers, called concurrently
InitLock ==
  /\ manifestFile = SavedText([version |-> 1, repos |-> ("acme/widgets" :> CachedSample),
                               localIndex |-> NoProps], "0")
  /\ manifestTmp = NoFile
  /\ clock = 0
  /\ io = [p \in Procs |-> IdleIo]
  /\ lastSaved = NoSave
  /\ lock \in {NoLock} \cup ForeignLocks
  /\ lk = [p \in Procs |-> IdleLk]
  /\ fs = NoTrees
  /\ st = [p \in Procs |-> IdleSt]
  /\ mutatedLocal = {}
  /\ remoteRepo = TrunkRemote

NextLock ==
  \/ \E p \in Procs :
       \/ \E w \in HelperWrites : HelperCall(p, w)
       \/ AcquireStep(p)
       \/ OpenError(p)
       \/ BodyStep(p)
       \/ BodyThrows(p)
       \/ HelperDone(p)
  \/ Tick

SpecLock == InitLock /\ [][NextLock]_vars

\* ---- SpecKeys: each caller writes to a key of its own, and no marker
\* ---- grows older than the staleness threshold
GearsKey == "acme/gears"

KeyOf(p) == IF p = 1 THEN "acme/widgets" ELSE GearsKey

KeyWrites(p) == {Touch(KeyOf(p), "dev"), Remove(KeyOf(p), UNDEF)}

InitKeys ==
  /\ manifestFile = SavedText([version |-> 1,
                               repos |-> ("acme/widgets" :> CachedSample)
                                         @@ (GearsKey :> LocalSample),
                               localIndex |-> (GearsSsh :> LocalSample.path)], "0")
  /\ manifestTmp = NoFile
  /\ clock = 0
  /\ io = [p \in Procs |-> IdleIo]
  /\ lastSaved = NoSave
  /\ lock = NoLock
  /\ lk = [p \in Procs |-> IdleLk]
  /\ fs = NoTrees
  /\ st = [p \in Procs |-> IdleSt]
  /\ mutatedLocal = {}
  /\ remoteRepo = TrunkRemote

\* time passes, less of it than the staleness threshold
TickYoung ==
  /\ lock.exists
  /\ lock.age < LOCK_STALE_MS
  /\ lock' = [lock EXCEPT !.age = @ + 1]
  /\ UNCHANGED <<manifestFile, manifestTmp, clock, lk, ioVars, toolVars>>

NextKeys ==
  \/ \E p \in Procs :
       \/ \E w \in KeyWrites(p) : HelperCall(p, w)
       \/ AcquireStep(p)
       \/ BodyStep(p)
       \/ HelperDone(p)
  \/ TickYoung

SpecKeys == InitKeys /\ [][NextKeys]_vars

\* ---- Spec: the tools of the plugin, called concurrently
WidgetsSsh == buildGitUrl("acme/widgets", FALSE)

UserCheckout == Checkout(WidgetsSsh, "dev")

ManifestWith(entry) ==
  SavedText([version |-> 1, repos |-> ("acme/widgets" :> entry), localIndex |-> NoProps], "0")

\* what a session may find: nothing cached; a cached clone on trunk; a clone
\* in the cache directory that the manifest does not know; the user's own
\* working tree registered as local
Situations ==
  { [file |-> NoFile, cache |-> Absent],
    [file |-> ManifestWith(CachedSample), cache |-> Checkout(WidgetsHttps, "trunk")],
    [file |-> NoFile, cache |-> Checkout(WidgetsHttps, "trunk")],
    [file |-> ManifestWith([BareSample EXCEPT !.remote = WidgetsSsh, !.shallow = "false"]),
     cache |-> Absent] }

Init ==
  /\ \E sit \in Situations :
       /\ manifestFile = sit.file
       /\ fs = (CachePath("acme/widgets") :> sit.cache) @@ (UserTree :> UserCheckout)
  /\ manifestTmp = NoFile
  /\ clock = 0
  /\ io = [p \in Procs |-> IdleIo]
  /\ lastSaved = NoSave
  /\ lock = NoLock
  /\ lk = [p \in Procs |-> IdleLk]
  /\ st = [p \in Procs |-> IdleSt]
  /\ mutatedLocal = {}
  /\ remoteRepo = TrunkRemote

\* the branches a request names: none, or one of these
RequestBranches == {UNDEF, "trunk", "dev"}

StartTool(p) ==
  \E key \in RepoKeys :
    \/ \E explicit \in RequestBranches : StartEnsure(p, key, explicit, FALSE)
    \/ StartEnsure(p, key, "trunk", TRUE)
    \/ \E explicit \in RequestBranches : StartRead(p, key, explicit)
    \/ \E explicit \in RequestBranches : StartUpdate(p, key, explicit)
    \/ \E confirm \in BOOLEAN : StartRemove(p, key, confirm)
    \/ \E roots \in ScanChoices : StartScan(p, roots)

EnsureStep(p) ==
  \/ EnsureLocal(p)
  \/ EnsureIsRepo(p)
  \/ EnsureTouch(p)
  \/ EnsureTouched(p)
  \/ EnsureRemoved(p)
  \/ EnsureInspect(p)
  \/ EnsureAdopt(p)
  \/ EnsureAdopted(p)
  \/ EnsureRm(p)
  \/ EnsureUpsert(p)
  \/ EnsureUpserted(p)

cloneRepo(p) ==
  \/ CloneLsRemote(p)
  \/ CloneCleanup(p)
  \/ CloneSucceeds(p)
  \/ CloneFails(p)
  \/ CloneFailCleanup(p)

switchBranch(p) ==
  \/ SwitchCheckout(p)
  \/ SwitchReset(p)
  \/ SwitchFails(p)

ToolStep(p) ==
  \/ ReadTouch(p)
  \/ ReadTouched(p)
  \/ updateRepo(p)
  \/ UpdateRepoFails(p)
  \/ UpdateInfo(p)
  \/ UpdateWritten(p)
  \/ RemoveRm(p)
  \/ RemoveRemoved(p)
  \/ ScanWritten(p)

Next ==
  \E p \in Procs :
    \/ StartTool(p)
    \/ EnsureStep(p)
    \/ cloneRepo(p)
    \/ switchBranch(p)
    \/ ToolStep(p)
    \/ AcquireStep(p)
    \/ BodyStep(p)

Spec == Init /\ [][Next]_vars

\* ---- SpecParse: a tool is given a spec and parses it (index.ts:2237-2238,
\* the first statement of every execute); nothing else has run yet
ParseInput(p) ==
  /\ \A q \in Procs : st[q].pc = "idle" /\ ~st[q].parsed.called
  /\ \E spec \in SpecInputs : st' = [st EXCEPT ![p].parsed = parseRepoSpec(spec)]
  /\ UNCHANGED <<manifestFile, manifestTmp, clock, lock, lk, fs, mutatedLocal, ioVars, remoteRepo>>

NextParse == \E p \in Procs : ParseInput(p)

SpecParse == Init /\ [][NextParse]_vars

\* ---- SpecClone: requests without a branch for a repository that is not
\* cached, against remotes whose HEAD is, or is not, one of the conventional
\* branch names
RemoteChoices ==
  { TrunkRemote,
    [head |-> "main", branches |-> {"main", "master"}, tip |-> 1],
    [head |-> "master", branches |-> {"master"}, tip |-> 1],
    [head |-> "trunk", branches |-> {"trunk", "main", "master"}, tip |-> 1] }

InitClone ==
  /\ manifestFile = NoFile
  /\ manifestTmp = NoFile
  /\ clock = 0
  /\ io = [p \in Procs |-> IdleIo]
  /\ lastSaved = NoSave
  /\ lock = NoLock
  /\ lk = [p \in Procs |-> IdleLk]
  /\ fs = (CachePath("acme/widgets") :> Absent) @@ (UserTree :> UserCheckout)
  /\ st = [p \in Procs |-> IdleSt]
  /\ mutatedLocal = {}
  /\ remoteRepo \in RemoteChoices

NextClone ==
  \E p \in Procs :
    \/ StartEnsure(p, "acme/widgets", UNDEF, FALSE)
    \/ EnsureInspect(p)
    \/ cloneRepo(p)
    \/ EnsureUpsert(p)
    \/ EnsureUpserted(p)
    \/ AcquireStep(p)
    \/ BodyStep(p)

SpecClone == InitClone /\ [][NextClone]_vars

\* ---- SpecHeal: requests for a repository whose cached entry has lost its
\* checkout: the directory is gone, or is no git working tree any more
InitHeal ==
  /\ manifestFile = ManifestWith(CachedSample)
  /\ manifestTmp = NoFile
  /\ clock = 0
  /\ io = [p \in Procs |-> IdleIo]
  /\ lastSaved = NoSave
  /\ lock = NoLock
  /\ lk = [p \in Procs |-> IdleLk]
  /\ \E lost \in {Absent, Junk} :
       fs = (CachePath("acme/widgets") :> lost) @@ (UserTree :> UserCheckout)
  /\ st = [p \in Procs |-> IdleSt]
  /\ mutatedLocal = {}
  /\ remoteRepo = TrunkRemote

NextHeal ==
  \E p \in Procs :
    \/ \E explicit \in RequestBranches : StartEnsure(p, "acme/widgets", explicit, FALSE)
    \/ EnsureIsRepo(p)
    \/ EnsureTouch(p)
    \/ EnsureTouched(p)
    \/ EnsureRemoved(p)
    \/ EnsureInspect(p)
    \/ EnsureAdopt(p)
    \/ EnsureAdopted(p)
    \/ EnsureRm(p)
    \/ EnsureUpsert(p)
    \/ EnsureUpserted(p)
    \/ cloneRepo(p)
    \/ switchBranch(p)
    \/ AcquireStep(p)
    \/ BodyStep(p)

SpecHeal == InitHeal /\ [][NextHeal]_vars

\* ---- SpecSeq: the tools called one after the other, never two at a time,
\* while the remote moves on and the cached working tree is worked in
MaxTip == 2

\* no operation is in flight
Quiescent ==
  \A q \in Procs : st[q].pc \in {"idle", "done"} /\ lk[q].pc = "idle"

\* a tool is called when the one before it is over
StartAlone(p) ==
  /\ Quiescent
  /\ StartTool(p)

\* somebody pushes to the remote: every branch's tip moves on
RemotePush ==
  /\ remoteRepo.tip < MaxTip
  /\ remoteRepo' = [remoteRepo EXCEPT !.tip = @ + 1]
  /\ UNCHANGED <<manifestFile, manifestTmp, clock, lock, lk, fs, st, mutatedLocal, ioVars>>

\* between two tool calls the cached working tree is worked in: files are
\* modified, or a commit is made that the remote does not have
LocalWork ==
  /\ Quiescent
  /\ \E path \in {CachePath(k) : k \in RepoKeys}, commits \in BOOLEAN :
       /\ fs[path].kind = "repo"
       /\ ~fs[path].dirty
       /\ fs[path].head[2] # 0
       /\ fs' = [fs EXCEPT ![path].dirty = ~commits,
                           ![path].head = IF commits THEN <<fs[path].branch, 0>> ELSE @]
  /\ UNCHANGED <<manifestFile, manifestTmp, clock, lock, lk, st, mutatedLocal, ioVars,
                 remoteRepo>>

NextSeq ==
  \/ \E p \in Procs :
       \/ StartAlone(p)
       \/ EnsureStep(p)
       \/ cloneRepo(p)
       \/ switchBranch(p)
       \/ ToolStep(p)
       \/ OpenCreates(p)
       \/ BodyStep(p)
  \/ RemotePush
  \/ LocalWork

SpecSeq == Init /\ [][NextSeq]_vars

(***************************************************************************)
(* Properties of loadManifest and saveManifest, under SpecStore.           *)
(***************************************************************************)
\* C4: a loadManifest that overlaps a saveManifest returns the normalized
\* form of a complete document that was at manifest.json during the load
\* (the one before the rename or the one after), never that of a text
\* only partly written.
LoadSeesCompleteDocument ==
  \A p \in Procs :
    io[p].pc = "loaded" =>
      \E file \in io[p].seen : io[p].m = loadManifest(file, io[p].at).manifest

\* a load began before a rename and ended after it, and returned the new document
LoadAcrossRename ==
  \E p \in Procs :
    /\ io[p].pc = "loaded"
    /\ Cardinality(io[p].seen) = 2
    /\ lastSaved.n > 0
    /\ DOMAIN lastSaved.last.repos # {}
    /\ io[p].m = lastSaved.last

\* C9: loadManifest never raises, and returns the empty manifest when
\* manifest.json is absent, is not parseable, or parses to something that
\* is no object (null, a number, a string, a boolean; an array too).
LoadNeverRaises ==
  \A p \in Procs :
    io[p].pc = "loaded" =>
      /\ ~io[p].threw
      /\ \A file \in io[p].seen :
           (io[p].seen = {file} /\ (~file.exists \/ ~file.parses \/ file.json.t # "object"))
             => io[p].m = createEmptyManifest

\* a load of a text that is not JSON has returned
LoadedUnparseable ==
  \E p \in Procs :
    /\ io[p].pc = "loaded"
    /\ io[p].seen = {PartialOf(JNull)}
    /\ io[p].m = createEmptyManifest

InBody(p) == lk[p].pc \in BodyPcs

\* the last stat of p's call found a marker older than the threshold
TookOverOldMarker(p) == lk[p].staleSeen /\ ~lk[p].statGone

\* C2: at no moment are the bodies of two withManifestLock calls executing
\* at once.  Stated here with the one exception the staleness rule makes by
\* design: a caller that took over a marker older than the threshold.
BodiesExcludeEachOther ==
  \A p, q \in Procs :
    (p # q /\ InBody(p) /\ InBody(q)) => (TookOverOldMarker(p) \/ TookOverOldMarker(q))

\* C5: once a call that acquired the lock has returned or has propagated the
\* body's error, the marker it created is gone; and when no other call is in
\* progress no marker is left.
ReleasedOnEveryExit ==
  /\ \A p \in Procs :
       lk[p].pc \in {"returned", "threw"} => ~(lock.exists /\ lock.owner = p)
  /\ ( /\ \A p \in Procs : lk[p].pc \in {"idle"} \cup DonePcs
       /\ \E p \in Procs : lk[p].pc \in {"returned", "threw"} )
     => ~lock.exists

\* a body raised, the error was propagated, and nothing is left
ThrewAndReleased ==
  \E p \in Procs :
    /\ lk[p].pc = "threw"
    /\ lk[p].ranBody
    /\ ~lock.exists
    /\ \A q \in Procs \ {p} : lk[q].pc = "idle"

Acquiring(p) == lk[p].pc \in AcquirePcs

\* where a call is in acquireLock: three awaits per attempt (open; stat;
\* unlink or sleep), then the loop test
Progress(call) ==
  3 * call.attempt + (CASE call.pc = "stat" -> 1
                        [] call.pc \in {"unlinkStale", "sleep"} -> 2
                        [] OTHER -> 0)

\* C6: acquisition terminates.  A call makes at most LOCK_MAX_ATTEMPTS
\* exclusive-create attempts, an attempt that removed a stale marker counted;
\* it backs off only after a stat that found the marker not stale; every
\* step of an acquisition moves it forward in a loop of bounded length; and
\* the loop is left with the lock or, after the last attempt, by the failure.
AcquisitionTerminates ==
  /\ [](\A p \in Procs :
          /\ lk[p].opens <= LOCK_MAX_ATTEMPTS
          /\ Progress(lk[p]) <= 3 * LOCK_MAX_ATTEMPTS
          /\ lk[p].pc = "sleep" => ~lk[p].staleSeen
          /\ lk[p].pc = "unlinkStale" => lk[p].staleSeen
          /\ lk[p].pc \in {"exhausted", "failed"} =>
               (lk[p].opens = LOCK_MAX_ATTEMPTS /\ lk[p].attempt = LOCK_MAX_ATTEMPTS))
  /\ [][\A p \in Procs :
          (Acquiring(p) /\ lk'[p] # lk[p]) =>
            \/ Acquiring(p)' /\ Progress(lk'[p]) > Progress(lk[p])
            \/ lk'[p].pc \in {"body", "errored"}
            \/ lk[p].pc = "exhausted" /\ lk'[p].pc = "failed"]_vars

\* a call failed after LOCK_MAX_ATTEMPTS attempts, one of which removed a
\* stale marker and one of which backed off
FailedAfterAllAttempts ==
  \E p \in Procs :
    /\ lk[p].pc = "failed"
    /\ lk[p].opens = LOCK_MAX_ATTEMPTS
    /\ lk[p].staleAt > 0
    /\ lk[p].backoffs > 0

\* C7: a call that found and removed a marker older than the staleness
\* threshold obtains the lock and runs its body.  Stated for a call that is
\* alone (no other call was ever made) and whose open did not fail otherwise.
StaleRemovalAcquires ==
  \A p \in Procs :
    (clock = 1 /\ lk[p].staleAt > 0 /\ lk[p].pc \in DonePcs \ {"errored"}) => lk[p].ranBody

\* C8: when a call exhausts its attempts, the marker is removed in the step
\* that signals the failure, the body of the call has not run and does not
\* run, and the call has written nothing to the manifest.
ExhaustionCleansUp ==
  [][\A p \in Procs :
       /\ (lk[p].pc # "failed" /\ lk'[p].pc = "failed") =>
            /\ lk[p].pc = "exhausted"
            /\ ~lock'.exists
            /\ manifestFile' = manifestFile /\ manifestTmp' = manifestTmp
       /\ lk'[p].pc = "failed" => (~lk'[p].ranBody /\ ~lk'[p].wrote)]_vars

\* a call has failed by exhaustion, a marker had been there, none is now
ExhaustedAndFailed ==
  \E p \in Procs :
    /\ lk[p].pc = "failed"
    /\ lk[p].outcome = "failed"
    /\ lk[p].backoffs > 0
    /\ ~lock.exists

(***************************************************************************)
(* Properties of the tools, under Spec.                                    *)
(***************************************************************************)
\* C1: whenever ensureCachedRepo returns a result of type cached with
\* (path, branch), at that moment the directory at path is a git working
\* tree whose checked-out branch is the branch returned.
EnsureReturnsValidTree ==
  \A p \in Procs :
    ( /\ st[p].pc = "done"
      /\ st[p].op = "ensure"
      /\ st[p].result.kind = "ok"
      /\ st[p].result.type = "cached" )
    => st[p].result.valid

\* C3: no clone, fetch/checkout/reset or recursive delete is ever applied to
\* a path while an entry of type local in the manifest points at it.
LocalPathsNeverMutated == mutatedLocal = {}

\* C11: in every manifest state, every path recorded in localIndex is the
\* path of some entry of type local (also after a scan that finds two working
\* trees of one key, and after a cached entry is written for a key).
LocalIndexPointsAtLocalEntries ==
  \A r \in DOMAIN Manifest.localIndex :
    \E k \in DOMAIN Manifest.repos :
      /\ Manifest.repos[k].type = "local"
      /\ Manifest.repos[k].path = Manifest.localIndex[r]

\* C12: every write of the manifest by a tool operation happens inside a
\* withManifestLock body and is derived from a loadManifest made inside that
\* same body: the temporary file and the manifest file change only in a step
\* of a call that is inside its body, the document written is the one the
\* body computed, and the body computed it from the file it loaded there.
ManifestWritesInsideLockBody ==
  [][ /\ \A p \in Procs :
           (lk[p].pc = "body" /\ lk'[p].pc = "write")
           => lk'[p].next =
                ApplyWrite(lk[p].w, loadManifest(manifestFile, nowIso).manifest, nowIso).manifest
      /\ manifestTmp' # manifestTmp /\ manifestTmp'.exists
         => \E p \in Procs :
              /\ lk[p].pc = "write"
              /\ lk'[p].pc = "rename"
              /\ manifestTmp' = SavedText(lk[p].next, nowIso)
      /\ manifestFile' # manifestFile
         => \E p \in Procs :
              /\ lk[p].pc = "rename"
              /\ lk'[p].wrote
              /\ manifestFile' = manifestTmp ]_vars

\* a repo_update has renamed its document over a manifest that held an entry
UpdateWroteInsideBody ==
  \E p \in Procs :
    /\ st[p].op = "update"
    /\ lk[p].w.kind = "update"
    /\ lk[p].wrote
    /\ lk[p].pc = "release"
    /\ "acme/widgets" \in DOMAIN Manifest.repos

\* the request of p finds, when ensureCachedRepo inspects it, a cached entry
\* whose checkout is valid and whose current branch is the branch requested
CachedAtRequestedBranch(p) ==
  /\ st[p].op = "ensure"
  /\ st[p].pc = "e_isrepo" \/ (st[p].pc = "e_inspect" /\ st[p].force)
  /\ st[p].existing.type = "cached"
  /\ isGitRepo(st[p].existing.path)
  /\ st[p].existing.currentBranch = st[p].branch
  /\ ~st[p].acted

\* C13 as stated: when a key has a cached entry whose checkout is valid and
\* the requested branch equals the entry's current branch, ensureCachedRepo
\* invokes no clone, fetch, checkout or reset and deletes nothing: its next
\* step is the touch of the entry.
CacheHitInvokesNothing ==
  [][ \A p \in Procs :
        (CachedAtRequestedBranch(p) /\ st'[p] # st[p])
        => /\ st'[p].pc = "e_touched"
           /\ ~st'[p].acted
           /\ fs' = fs ]_vars

\* C13, amended: the same for a request that does not force a fresh clone;
\* such a request only touches the entry (no branch written) and returns the
\* entry's existing path with status cached.
UnforcedCacheHitInvokesNothing ==
  [][ \A p \in Procs :
        /\ (CachedAtRequestedBranch(p) /\ ~st[p].force /\ st[p].pc = "e_isrepo"
            /\ st'[p] # st[p])
           => /\ st'[p].pc = "e_touched"
              /\ ~st'[p].acted
              /\ lk'[p].w = Touch(st[p].key, UNDEF)
              /\ fs' = fs
        /\ (st[p].pc = "e_touched" /\ ~st[p].acted /\ st'[p] # st[p])
           => /\ ~st'[p].acted
              /\ fs' = fs
              /\ st'[p].result.kind = "ok"
                 => /\ st'[p].result.path = st[p].existing.path
                    /\ st'[p].result.branch = st[p].existing.currentBranch
                    /\ st'[p].result.status = "cached" ]_vars

\* a request for the branch the cached entry is on has returned the entry's
\* path without having invoked anything
CacheHitReturned ==
  \E p \in Procs :
    /\ st[p].pc = "done"
    /\ st[p].op = "ensure"
    /\ ~st[p].force
    /\ ~st[p].acted
    /\ st[p].explicit = "trunk"
    /\ st[p].result.kind = "ok"
    /\ st[p].result.type = "cached"
    /\ st[p].result.status = "cached"
    /\ st[p].result.path = CachePath("acme/widgets")

\* the step in which ensureCachedRepo returns from the cache hit that
\* switched the branch (index.ts:2460-2472)
SwitchedHitReturns(p) ==
  /\ st[p].op = "ensure"
  /\ st[p].pc = "e_touched"
  /\ st[p].acted
  /\ st[p].existing.currentBranch # st[p].branch
  /\ st'[p].pc = "done"
  /\ st'[p].result.kind = "ok"

\* C14: when a key has a valid cached entry on branch A and a request names
\* a different branch B, then when the request succeeds the working tree is
\* checked out on B, the manifest entry's currentBranch is B, its lastUpdated
\* is refreshed, and the path returned is the entry's path.
SwitchLeavesRequestedBranch ==
  [][ \A p \in Procs :
        SwitchedHitReturns(p)
        => /\ st'[p].result.path = st[p].existing.path
           /\ st'[p].result.branch = st[p].branch
           /\ fs'[st[p].existing.path].kind = "repo"
           /\ fs'[st[p].existing.path].branch = st[p].branch
           /\ EntryOf(Manifest', st[p].key).currentBranch = st[p].branch
           /\ EntryOf(Manifest', st[p].key).lastUpdated # st[p].existing.lastUpdated ]_vars

FreshCloneReturns(p) ==
  /\ st[p].op = "ensure"
  /\ st[p].explicit = UNDEF
  /\ st[p].fresh
  /\ st[p].pc = "e_upserted"
  /\ st[p].mode = "named"
  /\ st[p].cands = <<RemoteDefault, "main", "master">>
  /\ st'[p].pc = "done"
  /\ st'[p].result.kind = "ok"

PlainName(x) ==
  /\ x # <<>>
  /\ ~includes(x, "/")
  /\ ~includes(x, "@")
  /\ Head(x) \notin WhiteSpace
  /\ x[Len(x)] \notin WhiteSpace

Parsed(spec, owner, repo, branch) ==
  [NoSpec EXCEPT !.called = TRUE, !.input = spec, !.owner = owner, !.repo = repo,
                 !.branch = branch]

\* every way to read r.input as owner + '/' + repo, and as
\* owner + '/' + repo + '@' + branch with a branch that BranchOk admits,
\* gives back these components
RoundTrips(r, BranchOk(_)) ==
  LET spec == r.input
      n == Len(spec)
  IN /\ \A i \in 1..n :
          LET owner == SubSeq(spec, 1, i - 1)
              repo == SubSeq(spec, i + 1, n)
          IN (spec[i] = "/" /\ PlainName(owner) /\ PlainName(repo))
             => r = Parsed(spec, owner, repo, NullBranch)
     /\ \A i \in 1..n : \A j \in (i + 1)..n :
          LET owner == SubSeq(spec, 1, i - 1)
              repo == SubSeq(spec, i + 1, j - 1)
              branch == SubSeq(spec, j + 1, n)
          IN (spec[i] = "/" /\ spec[j] = "@" /\ PlainName(owner) /\ PlainName(repo)
              /\ branch # <<>> /\ BranchOk(branch))
             => r = Parsed(spec, owner, repo, BranchOf(branch))

AnyBranch(branch) == TRUE

NoTrailingSpace(branch) == branch[Len(branch)] \notin WhiteSpace

\* C18 as stated: for every non-empty owner and repo containing neither '/'
\* nor '@' and without surrounding white space, parseRepoSpec(owner/repo) is
\* {owner, repo, branch: null}, and for every non-empty branch, which may
\* contain '/' or '@', parseRepoSpec(owner/repo@branch) is {owner, repo, branch}.
ParseRoundTripsAnyBranch ==
  \A p \in Procs : st[p].parsed.called => RoundTrips(st[p].parsed, AnyBranch)

\* C18, amended: the same for every non-empty branch that does not end in
\* white space.
ParseRoundTrips ==
  \A p \in Procs : st[p].parsed.called => RoundTrips(st[p].parsed, NoTrailingSpace)

\* a spec whose branch holds both separators has been parsed
ParsedBranchWithSeparators ==
  \E p \in Procs :
    /\ st[p].parsed.called
    /\ ~st[p].parsed.threw
    /\ PlainName(st[p].parsed.owner)
    /\ PlainName(st[p].parsed.repo)
    /\ ~st[p].parsed.branch.null
    /\ includes(st[p].parsed.branch.s, "/")
    /\ includes(st[p].parsed.branch.s, "@")

\* the part of a trimmed spec before its first '@': owner and repo
RepoPart(t) == IF includes(t, "@") THEN SubSeq(t, 1, indexOf(t, "@")) ELSE t

EmptyBranchAfterAt(t) == includes(t, "@") /\ indexOf(t, "@") = Len(t) - 1

NoSlash(t) == ~includes(t, "/")

EmptyOwnerOrRepo(t) ==
  LET path == RepoPart(t)
  IN includes(path, "/") /\ (Head(path) = "/" \/ indexOf(path, "/") = Len(path) - 1)

FurtherSlash(t) ==
  LET path == RepoPart(t)
  IN \E i, j \in 1..Len(path) : i < j /\ path[i] = "/" /\ path[j] = "/"

\* C19: parseRepoSpec rejects, each with its own reason and before any I/O,
\* a spec with no '/', a spec with an empty owner or an empty repo, a spec
\* whose repo part contains a further '/', and a spec with an empty branch
\* after '@' (a spec of several kinds gets the reason of the first check that
\* applies: branch, format, empty part, extra slash); every spec it does not
\* reject yields a non-empty owner and a non-empty repo without '/'.
ParseRejectsWithReason ==
  \A p \in Procs :
    LET r == st[p].parsed
        t == trim(r.input)
    IN r.called
       => /\ Cardinality({BranchEmpty, BadFormat, EmptyPart, ExtraSlash}) = 4
          /\ EmptyBranchAfterAt(t) => r.threw /\ r.reason = BranchEmpty
          /\ NoSlash(t)
             => r.threw /\ (~EmptyBranchAfterAt(t) => r.reason = BadFormat)
          /\ EmptyOwnerOrRepo(t)
             => r.threw /\ (~EmptyBranchAfterAt(t) => r.reason = EmptyPart)
          /\ FurtherSlash(t)
             => r.threw /\ ((~EmptyBranchAfterAt(t) /\ ~EmptyOwnerOrRepo(t))
                            => r.reason = ExtraSlash)
          /\ r.threw
             => /\ r.reason \in {BranchEmpty, BadFormat, EmptyPart, ExtraSlash}
                /\ st[p].pc = "idle" /\ lk[p] = IdleLk
                /\ lock = NoLock /\ manifestTmp = NoFile /\ clock = 0
          /\ ~r.threw
             => /\ r.owner # <<>>
                /\ r.repo # <<>>
                /\ ~includes(r.repo, "/")

\* a spec with a further '/' in its repo part has been rejected for it
RejectedExtraSlash ==
  \E p \in Procs :
    /\ st[p].parsed.called
    /\ st[p].parsed.threw
    /\ st[p].parsed.reason = ExtraSlash
    /\ FurtherSlash(trim(st[p].parsed.input))

(***************************************************************************)
(* Properties of repo_update, under Spec.                                  *)
(***************************************************************************)
\* C20: repo_update on a cached entry updates the repository on its current
\* branch when the spec names no branch (updateRepo runs, no switchBranch to
\* another branch is started), and starts switchBranch only for a branch that
\* the spec names explicitly.
UpdateSwitchesOnlyWhenNamed ==
  [][ \A p \in Procs :
        LET t == st'[p]
            entry == EntryOf(Manifest, t.key)
        IN (st[p].pc = "idle" /\ t.op = "update" /\ entry.type = "cached")
           => /\ t.explicit = UNDEF => t.pc = "u_pull"
              /\ t.pc = "sw_checkout"
                 => /\ t.explicit # UNDEF
                    /\ t.swBranch = t.explicit ]_vars

(***************************************************************************)
(* Properties of ensureCachedRepo's cases, under Spec.                     *)
(***************************************************************************)
\* a forced request of p found a cached entry for its key
ForcedOnCached(s) ==
  s.op = "ensure" /\ s.force /\ s.existing.type = "cached"

ProtocolFallbackInOrder ==
  [][ \A p \in Procs :
        LET s == st[p]
            t == st'[p]
            destPath == CachePath(s.key)
        IN /\ (s.op = "ensure" /\ s.urls = <<>> /\ t.urls # <<>>)
              => t.urls = <<buildGitUrl(s.key, UseHttps), buildGitUrl(s.key, ~UseHttps)>>
           /\ (s.urls # <<>> /\ t.urls # s.urls /\ t.pc # "done")
              => s.pc = "c_failcleanup" /\ t.urls = Tail(s.urls) /\ t.urls # <<>>
           /\ (s.pc \in {"c_lsremote", "c_cleanup", "c_clone", "c_failcleanup"}
               /\ t.pc = "done")
              => s.pc = "c_failcleanup" /\ Len(s.urls) = 1 /\ t.result.kind = "error"
           /\ (s.pc = "c_failcleanup" /\ t.pc = "done")
              => /\ lk'[p] = IdleLk /\ lk[p] = IdleLk
                 /\ manifestFile' = manifestFile /\ manifestTmp' = manifestTmp
           /\ (s.pc # "e_upsert" /\ t.pc = "e_upsert")
              => /\ s.pc = "c_clone"
                 /\ fs'[destPath] = Checkout(Head(s.urls), t.cloned)
                 /\ t.remote = Head(s.urls)
           /\ (s.pc = "e_upsert" /\ t # s)
              => /\ lk'[p].w = Upsert(s.key, destPath, s.cloned, s.remote, nowIso)
                 /\ manifestFile' = manifestFile
           /\ (s.pc = "e_upserted" /\ lk'[p] # lk[p] /\ manifestFile' # manifestFile)
              => /\ lk[p].pc = "rename"
                 /\ EntryOf(Manifest', s.key).type = "cached"
                 /\ EntryOf(Manifest', s.key).remote = s.remote
                 /\ EntryOf(Manifest', s.key).clonedAt = lk[p].w.clonedAt ]_vars

\* the preferred scheme failed, the other succeeded, and the entry written
\* names the other scheme's URL
WroteEntryForOtherScheme ==
  \E p \in Procs :
    /\ st[p].op = "ensure"
    /\ st[p].pc = "e_upserted"
    /\ st[p].urls = <<buildGitUrl(st[p].key, ~UseHttps)>>
    /\ lk[p].wrote
    /\ EntryOf(Manifest, st[p].key).type = "cached"
    /\ EntryOf(Manifest, st[p].key).remote = buildGitUrl(st[p].key, ~UseHttps)

(***************************************************************************)
(* Properties of cloneRepo, under SpecClone.                               *)
(***************************************************************************)
\* the branches to attempt when ls-remote reports d (UNDEF: nothing)
CandidatesFor(d) ==
  IF d \in {UNDEF, "main"} THEN <<"main", "master">>
  ELSE IF d = "master" THEN <<"master", "main">>
  ELSE <<d, "main", "master">>

\* C23: cloneRepo with no branch given attempts the remote's symbolic default
\* (if known), then 'main', then 'master', each once; it stops at the first
\* attempt that succeeds and returns that branch; only when every named
\* attempt has failed does it make the plain clone, and then it returns the
\* branch that was checked out.
BranchFallbackInOrder ==
  [][ \A p \in Procs :
        LET s == st[p]
            t == st'[p]
            destPath == CachePath(s.key)
        IN /\ (s.pc = "c_lsremote" /\ t # s)
              => /\ t.cands \in {CandidatesFor(RemoteDefault), CandidatesFor(UNDEF)}
                 /\ t.mode = "named" /\ t.pc = "c_cleanup"
           /\ (s.pc = "c_clone" /\ s.mode = "named" /\ t.pc = "e_upsert")
              => /\ t.cloned = Head(s.cands)
                 /\ fs'[destPath] = Checkout(Head(s.urls), Head(s.cands))
           /\ (s.pc = "c_clone" /\ s.mode = "named" /\ t # s /\ t.pc # "e_upsert")
              => /\ t.pc = "c_cleanup"
                 /\ IF Len(s.cands) > 1
                    THEN t.mode = "named" /\ t.cands = Tail(s.cands)
                    ELSE t.mode = "default" /\ t.cands = <<>>
           /\ (s.mode # "default" /\ t.mode = "default")
              => s.mode = "named" /\ s.pc = "c_clone" /\ Len(s.cands) = 1
           /\ (s.pc = "c_clone" /\ s.mode = "default" /\ t.pc = "e_upsert")
              => /\ t.cloned = fs'[destPath].branch
                 /\ t.cloned = RemoteDefault ]_vars

\* the remote's default branch is main: main was attempted once, as the first
\* of two candidates, and the clone succeeded
ClonedMainOnce ==
  \E p \in Procs :
    /\ remoteRepo.head = "main"
    /\ st[p].pc = "e_upsert"
    /\ st[p].mode = "named"
    /\ st[p].cands = <<"main", "master">>
    /\ st[p].cloned = "main"

(***************************************************************************)
(* Properties of the self-healing case, under SpecHeal.                    *)
(***************************************************************************)
\* the step in which a request returns successfully after it had found its
\* cached entry without a valid checkout
HealedReturns(p) ==
  /\ st[p].op = "ensure"
  /\ ~st[p].force
  /\ st[p].existing.type = "cached"
  /\ st[p].pc \in {"e_upserted", "e_adopted"}
  /\ st'[p].pc = "done"
  /\ st'[p].result.kind = "ok"

\* C24: when a key has a cached entry whose path is missing or is no valid
\* git checkout, ensureCachedRepo does not fail for that reason: it removes
\* the stale entry and goes on to the inspection of the cache path and the
\* acquisition; and when it succeeds the manifest holds a cached entry for
\* the key that points at a valid working tree.
StaleEntryHeals ==
  [][ \A p \in Procs :
        LET s == st[p]
            t == st'[p]
        IN /\ (s.pc = "e_isrepo" /\ ~isGitRepo(s.existing.path) /\ t # s)
              => /\ t.pc = "e_removed"
                 /\ lk'[p].w = Remove(s.key, s.existing.path)
           /\ (s.pc = "e_removed" /\ t # s /\ lk[p].pc = "returned")
              => t.pc = "e_inspect"
           /\ HealedReturns(p)
              => /\ EntryOf(Manifest', s.key).type = "cached"
                 /\ EntryOf(Manifest', s.key).path = t.result.path
                 /\ fs'[t.result.path].kind = "repo" ]_vars

(***************************************************************************)
(* Properties of the directory found at the cache path, under Spec.        *)
(***************************************************************************)
\* the steps of p from the inspection of a directory present at the cache
\* path, where adoptable tells whether the directory is to be adopted
InspectFollows(p, adoptable) ==
  LET s == st[p]
      t == st'[p]
      destPath == CachePath(s.key)
  IN /\ (s.pc = "e_inspect" /\ fs[destPath].kind # "absent" /\ t # s)
        => IF adoptable
           THEN /\ fs' = fs
                /\ t.remote = getRepoRemote(destPath)
                /\ IF fs[destPath].branch # s.branch
                   THEN /\ t.pc = "sw_checkout"
                        /\ t.swPath = destPath
                        /\ t.swBranch = s.branch
                        /\ t.cont = "e_adopt"
                   ELSE t.pc = "e_adopt"
           ELSE t.pc = "e_rm"
     /\ (s.pc = "e_adopt" /\ t # s)
        => /\ fs' = fs
           /\ t.pc = "e_adopted"
           /\ lk'[p].w = Upsert(s.key, destPath, s.branch, s.remote, UNDEF)
     /\ (s.pc = "e_adopted" /\ lk[p].pc = "write" /\ lk'[p].pc = "rename")
        => LET saved == loadManifest(manifestTmp', nowIso).manifest
           IN /\ EntryOf(saved, s.key).type = "cached"
              /\ EntryOf(saved, s.key).path = destPath
              /\ EntryOf(saved, s.key).currentBranch = s.branch
     /\ (s.pc = "e_rm" /\ t # s)
        => /\ fs'[destPath] = Absent
           /\ t.pc \in {"c_cleanup", "c_lsremote"}

\* the directory at p's cache path is a git checkout whose origin maps to
\* the requested owner/repo
MatchingCheckout(p) ==
  LET destPath == CachePath(st[p].key)
  IN isGitRepo(destPath) /\ repoRemoteMatches(getRepoRemote(destPath), st[p].key)

OnLocal(s) ==
  s.op = "ensure" /\ s.existing.type = "local"

\* C26: when the key has a local entry, ensureCachedRepo, with or without
\* force and whatever branch is asked for, changes nothing but that entry's
\* lastAccessed: its only call is touchRepo(key) without a branch, the
\* document it saves is the one it loaded with lastAccessed of the key
\* replaced, no step of it changes a file or runs a git command, and the
\* result reports the entry's path and recorded branch.
LocalEntryOnlyTouched ==
  [][ \A p \in Procs :
        LET s == st[p]
            t == st'[p]
            loaded == loadManifest(manifestFile, nowIso).manifest
        IN /\ (s.pc = "idle" /\ OnLocal(t))
              => /\ t.pc = "e_local"
                 /\ lk'[p].w = Touch(t.key, UNDEF)
           /\ (OnLocal(s) /\ (t # s \/ lk'[p] # lk[p]))
              => /\ fs' = fs
                 /\ mutatedLocal' = mutatedLocal
                 /\ t.pc \in {"e_local", "done"}
                 /\ ~t.acted
           /\ (OnLocal(s) /\ lk[p].pc = "body" /\ lk'[p].pc = "write")
              => /\ s.key \in DOMAIN loaded.repos
                 /\ lk'[p].next =
                      [loaded EXCEPT !.repos[s.key].lastAccessed = nowIso]
           /\ (OnLocal(s) /\ lk[p].pc = "body" /\ lk'[p].pc = "release"
               /\ lk'[p].outcome = "returned")
              => s.key \notin DOMAIN loaded.repos
           /\ (OnLocal(s) /\ lk[p].pc = "write" /\ lk'[p].pc = "rename")
              => loadManifest(manifestTmp', nowIso).manifest = lk[p].next
           /\ (OnLocal(s) /\ t.pc = "done" /\ t.result.kind = "ok")
              => /\ t.result.type = "local"
                 /\ t.result.path = s.existing.path
                 /\ t.result.branch = s.existing.currentBranch ]_vars

\* a forced request for another branch has touched a local entry: the entry
\* in the manifest differs from the one it found in lastAccessed only, and
\* the working tree is where it was
LocalTouchedUnderForce ==
  \E p \in Procs :
    /\ OnLocal(st[p])
    /\ st[p].force
    /\ st[p].pc = "e_local"
    /\ lk[p].wrote
    /\ st[p].branch # st[p].existing.currentBranch
    /\ EntryOf(Manifest, st[p].key) # st[p].existing
    /\ EntryOf(Manifest, st[p].key) =
         [st[p].existing EXCEPT !.lastAccessed = EntryOf(Manifest, st[p].key).lastAccessed]
    /\ fs[st[p].existing.path].kind = "repo"
    /\ fs[st[p].existing.path].branch = st[p].existing.currentBranch

(***************************************************************************)
(* Properties of concurrent acquisitions, under Spec.                      *)
(***************************************************************************)
\* a request of p found no entry for its key
OnNoEntry(s) ==
  s.op = "ensure" /\ s.existing = NoEntry

\* C27: the decision to acquire is taken outside the manifest lock and only
\* the final manifest write is locked: a request that found no entry reads
\* the manifest, inspects the cache path, deletes and clones without taking
\* or waiting for the lock, and asks for the lock only for
\* upsertCachedRepoEntry after its clone; so two requests for one key can
\* both be cloning to the same destination (the witness).
AcquisitionDecidedOutsideLock ==
  [][ \A p \in Procs :
        LET s == st[p]
            t == st'[p]
        IN /\ (s.pc = "idle" /\ OnNoEntry(t))
              => /\ t.pc = "e_inspect"
                 /\ lk'[p] = IdleLk
                 /\ lock' = lock
           /\ (OnNoEntry(s) /\ t # s
               /\ s.pc \in {"e_inspect", "e_rm", "c_lsremote", "c_cleanup", "c_clone",
                            "c_failcleanup"})
              => /\ lk[p] = IdleLk
                 /\ lk'[p] = IdleLk
                 /\ lock' = lock
                 /\ manifestFile' = manifestFile
           /\ (OnNoEntry(s) /\ s.pc = "e_upsert" /\ t # s)
              => /\ lk'[p] = LockCall(p, Upsert(s.key, CachePath(s.key), s.cloned, s.remote,
                                                nowIso))[p]
                 /\ manifestFile' = manifestFile ]_vars

\* two requests for the same key, each having found no entry and nothing at
\* the cache path, are both inside git clone to the same destination
BothCloneSameDestination ==
  \E p, q \in Procs :
    /\ p # q
    /\ OnNoEntry(st[p]) /\ OnNoEntry(st[q])
    /\ st[p].key = st[q].key
    /\ st[p].fresh /\ st[q].fresh
    /\ st[p].pc = "c_clone" /\ st[q].pc = "c_clone"
    /\ st[p].acted /\ st[q].acted
    /\ EntryOf(Manifest, st[p].key) = NoEntry

(***************************************************************************)
(* Properties of the manifest write of a cache hit, under Spec.            *)
(***************************************************************************)
\* a request of p, not forced, found a cached entry on the requested branch
\* and its checkout valid
HitOnSameBranch(p) ==
  /\ st[p].op = "ensure"
  /\ ~st[p].force
  /\ st[p].existing.type = "cached"
  /\ st[p].existing.currentBranch = st[p].branch
  /\ st[p].pc = "e_touched"

\* the statement of C28 as written: a hit on the entry's own branch does not
\* rewrite the manifest document
SameBranchHitWritesNothing ==
  [][ \A p \in Procs :
        (HitOnSameBranch(p) /\ lk'[p] # lk[p])
        => manifestFile' = manifestFile /\ manifestTmp' = manifestTmp ]_vars

\* C28: for a valid cached entry ensureCachedRepo rewrites the manifest on
\* every hit, and what it rewrites depends on the switch: when the requested
\* branch equals the entry's branch it calls touchRepo without a branch and
\* the document saved differs from the one loaded in the entry's
\* lastAccessed only; after a switch it calls touchRepo with the branch and
\* currentBranch and lastUpdated are written as well.
HitRewritesOnlyWhatChanged ==
  [][ \A p \in Procs :
        LET s == st[p]
            t == st'[p]
            loaded == loadManifest(manifestFile, nowIso).manifest
            hit == s.op = "ensure" /\ ~s.force /\ s.existing.type = "cached"
        IN /\ (hit /\ s.pc = "e_isrepo" /\ t.pc = "e_touched")
              => /\ s.existing.currentBranch = s.branch
                 /\ lk'[p].w = Touch(s.key, UNDEF)
           /\ (hit /\ s.pc = "e_touch" /\ t # s)
              => /\ s.existing.currentBranch # s.branch
                 /\ lk'[p].w = Touch(s.key, s.branch)
           /\ (hit /\ s.pc = "e_touched" /\ lk[p].pc = "body" /\ lk'[p].pc # "body"
               /\ s.key \in DOMAIN loaded.repos)
              => /\ lk'[p].pc = "write"
                 /\ lk'[p].next =
                      IF s.existing.currentBranch = s.branch
                      THEN [loaded EXCEPT !.repos[s.key].lastAccessed = nowIso]
                      ELSE [loaded EXCEPT !.repos[s.key].lastAccessed = nowIso,
                                          !.repos[s.key].currentBranch = s.branch,
                                          !.repos[s.key].lastUpdated = nowIso]
           /\ (hit /\ s.pc = "e_touched" /\ lk[p].pc = "write" /\ lk'[p].pc = "rename")
              => loadManifest(manifestTmp', nowIso).manifest = lk[p].next ]_vars

\* a hit on the entry's own branch has rewritten the manifest: the entry
\* differs from the one found in lastAccessed only
SameBranchHitRewrote ==
  \E p \in Procs :
    /\ HitOnSameBranch(p)
    /\ lk[p].wrote
    /\ EntryOf(Manifest, st[p].key) # st[p].existing
    /\ EntryOf(Manifest, st[p].key) =
         [st[p].existing EXCEPT !.lastAccessed = EntryOf(Manifest, st[p].key).lastAccessed]

(***************************************************************************)
(* Properties of the error of a failed acquisition, under Spec.            *)
(***************************************************************************)
\* the attempts one cloneRepo error gives a reason for: the explicit branch
\* it names, or each named candidate and then the plain clone
ReasonsOf(e) ==
  IF e.message.kind = "branch"
  THEN <<(<<e.url, e.message.branch>>)>>
  ELSE [i \in 1..Len(e.message.details) |-> <<e.url, e.message.details[i]>>]
       \o <<(<<e.url, "HEAD">>)>>

\* the attempts the whole error gives a reason for, in its order
RECURSIVE ReasonsIn(_)
ReasonsIn(errors) ==
  IF errors = <<>> THEN <<>>
  ELSE ReasonsOf(Head(errors)) \o ReasonsIn(Tail(errors))

\* C29: when a fresh acquisition fails completely, the error names the
\* repository key and holds one reason for every URL tried and, within each
\* URL, one reason for every branch candidate tried and for the plain clone
\* (or names the explicit branch): the reasons of the error are, one for
\* one and in order, the git clone commands that were run and failed.
CloneErrorNamesEveryAttempt ==
  [][ \A p \in Procs :
        LET s == st[p]
            t == st'[p]
        IN (s.pc = "c_failcleanup" /\ t.pc = "done")
           => /\ t.result.kind = "error"
              /\ t.result.error.key = s.key
              /\ ReasonsIn(t.result.error.errors) = s.tried
              /\ s.tried # <<>>
              /\ [i \in 1..Len(t.result.error.errors) |-> t.result.error.errors[i].url]
                   = uniqueValues(<<buildGitUrl(s.key, UseHttps),
                                    buildGitUrl(s.key, ~UseHttps)>>) ]_vars

\* an acquisition without explicit branch has failed for both URLs, after
\* four failed git clone commands at least for one of them, and its error
\* names them all
CloneFailedAfterAllFallbacks ==
  \E p \in Procs :
    /\ st[p].pc = "done"
    /\ st[p].explicit = UNDEF
    /\ st[p].result.kind = "error"
    /\ st[p].result.error.key = st[p].key
    /\ Len(st[p].result.error.errors) = 2
    /\ Len(ReasonsIn(st[p].result.error.errors)) >= 7
    /\ fs[CachePath(st[p].key)].kind = "absent"

(***************************************************************************)
(* Termination of ensureCachedRepo, under Spec.                            *)
(***************************************************************************)
\* steps of one cloneRepo call at most: ls-remote, four attempts of a
\* cleanup and a clone each, the cleanup before the throw
CloneSpan == 10

\* steps a withManifestLock call has left at most
LockLeft(call) ==
  CASE call.pc = "exhausted" -> 5
    [] call.pc \in AcquirePcs \ {"exhausted"} -> 3 * LOCK_MAX_ATTEMPTS - Progress(call) + 6
    [] call.pc = "body" -> 4
    [] call.pc = "write" -> 3
    [] call.pc = "rename" -> 2
    [] call.pc = "release" -> 1
    [] OTHER -> 0

LockSpan == 3 * LOCK_MAX_ATTEMPTS + 7

\* steps cloneWithProtocolFallback has left at most
CloneLeft(s) ==
  IF s.pc \notin {"c_lsremote", "c_cleanup", "c_clone", "c_failcleanup"} THEN 0
  ELSE (Len(s.urls) - 1) * CloneSpan
       + (CASE s.pc = "c_lsremote" -> CloneSpan
            [] s.pc = "c_failcleanup" -> 1
            [] s.pc = "c_cleanup" -> IF s.mode = "named" THEN 2 * Len(s.cands) + 3 ELSE 3
            [] s.pc = "c_clone" -> IF s.mode = "named" THEN 2 * Len(s.cands) + 2 ELSE 2)

\* the stages of ensureCachedRepo, later stages lower
StageLeft(s) ==
  CASE s.pc = "e_isrepo" -> 10
    [] s.pc = "e_removed" -> 9
    [] s.pc = "e_inspect" -> 8
    [] s.pc = "e_rm" -> 7
    [] s.pc \in {"c_lsremote", "c_cleanup", "c_clone", "c_failcleanup"} -> 6
    [] s.pc = "sw_checkout" -> 5
    [] s.pc = "sw_reset" -> 4
    [] s.pc \in {"e_touch", "e_adopt", "e_upsert"} -> 3
    [] s.pc \in {"e_local", "e_touched", "e_adopted", "e_upserted"} -> 2
    [] OTHER -> 0

\* the steps a call of p has left at most
StepsLeft(s, call) ==
  (StageLeft(s) * (2 * CloneSpan + 1) + CloneLeft(s)) * LockSpan + LockLeft(call)

\* the git clone commands of p's call so far, the one in flight included
Attempts(s) ==
  IF s.pc = "c_clone" THEN Append(s.tried, Attempt(s)) ELSE s.tried

\* C30: every ensureCachedRepo call returns or fails, each git and
\* filesystem call returning: every step of the call lowers a bounded count
\* of the steps it has left; it tries at most two URLs, each with at most
\* four clone commands (three named branches and the plain clone), never
\* the same command twice; and after it has returned or failed it takes no
\* further step.
EnsureTerminates ==
  /\ [](\A p \in Procs :
          st[p].op = "ensure" =>
            LET a == Attempts(st[p])
            IN /\ Len(st[p].urls) <= 2
               /\ Cardinality({a[i][1] : i \in 1..Len(a)}) <= 2
               /\ \A u \in {a[i][1] : i \in 1..Len(a)} :
                    Cardinality({i \in 1..Len(a) : a[i][1] = u}) <= 4
               /\ \A i, j \in 1..Len(a) : a[i] = a[j] => i = j
               /\ StepsLeft(st[p], lk[p]) >= 0)
  /\ [][\A p \in Procs :
          /\ (st[p].op = "ensure" /\ st[p].pc # "done"
              /\ (st'[p] # st[p] \/ lk'[p] # lk[p]))
             => StepsLeft(st'[p], lk'[p]) < StepsLeft(st[p], lk[p])
          /\ (st[p].op = "ensure" /\ st[p].pc = "done")
             => st'[p] = st[p] /\ lk'[p] = lk[p] ]_vars

\* a call without explicit branch is inside its eighth git clone: the plain
\* clone of the second URL, after four failures on the first and three
\* failed named branches on the second
EighthCloneInFlight ==
  \E p \in Procs :
    /\ st[p].op = "ensure"
    /\ st[p].pc = "c_clone"
    /\ st[p].mode = "default"
    /\ Len(st[p].urls) = 1
    /\ Len(Attempts(st[p])) = 8
    /\ StepsLeft(st[p], lk[p]) > 0

(***************************************************************************)
(* Properties of switchBranch and updateRepo, under SpecSeq.               *)
(***************************************************************************)
\* the working tree after is what switchBranch(path, branch) leaves of the
\* tree before when it fetched the tip at position tip: branch checked
\* out, the head at the fetched commit, no local commit and no modification
SwitchedTo(treeBefore, treeAfter, branch, tip) ==
  /\ treeAfter.kind = "repo"
  /\ treeAfter.origin = treeBefore.origin
  /\ treeAfter.branch = branch
  /\ treeAfter.refs[branch] = tip
  /\ treeAfter.head = <<branch, tip>>
  /\ ~treeAfter.dirty

\* C31: after switchBranch(path, branch) succeeds the working tree at path
\* has branch checked out, its head is the tip that was fetched from the
\* remote for that branch, and local commits and modifications are gone;
\* updateRepo(path) does the same for the branch that is checked out.
SwitchBranchMatchesRemote ==
  [][ \A p \in Procs :
        LET s == st[p]
            t == st'[p]
        IN /\ (s.pc = "sw_checkout" /\ t.pc = "sw_reset")
              => /\ fs'[s.swPath].branch = s.swBranch
                 /\ fs'[s.swPath].refs[s.swBranch] = remoteRepo.tip
           /\ (s.pc = "sw_reset" /\ t.pc = s.cont)
              => SwitchedTo(fs[s.swPath], fs'[s.swPath], s.swBranch,
                            fs[s.swPath].refs[s.swBranch])
           /\ (s.pc = "u_pull" /\ t.pc = "u_info")
              => SwitchedTo(fs[s.existing.path], fs'[s.existing.path],
                            fs[s.existing.path].branch, remoteRepo.tip) ]_vars

\* a switch to another branch has succeeded after the remote had moved on:
\* the tree is clean, on the branch asked for, at the remote's new tip
SwitchedToNewTip ==
  \E p \in Procs :
    /\ st[p].pc \in {"e_touch", "r_touch"}
    /\ st[p].acted
    /\ st[p].existing.currentBranch # st[p].swBranch
    /\ remoteRepo.tip = MaxTip
    /\ fs[st[p].swPath].branch = st[p].swBranch
    /\ fs[st[p].swPath].head = <<st[p].swBranch, MaxTip>>
    /\ ~fs[st[p].swPath].dirty

(***************************************************************************)
(* Properties of the cached entries of the manifest, under Spec.           *)
(***************************************************************************)
\* C32: in every manifest the tools produce, every entry of type cached has
\* shallow = true and the path <cacheRoot>/<owner>/<repo> of its key, so a
\* key has one working tree whatever branches were asked for.
CachedEntriesAtCachePath ==
  \A key \in DOMAIN Manifest.repos :
    Manifest.repos[key].type = "cached"
    => /\ Manifest.repos[key].shallow = "true"
       /\ Manifest.repos[key].path = CachePath(key)

\* a request for dev on a key cached on trunk is over: the entry is on dev,
\* at the same path, its clone time unchanged
SecondBranchSamePath ==
  \E p \in Procs :
    /\ st[p].pc = "done"
    /\ st[p].result.kind = "ok"
    /\ st[p].branch = "dev"
    /\ st[p].result.path = CachePath(st[p].key)
    /\ EntryOf(Manifest, st[p].key).type = "cached"
    /\ EntryOf(Manifest, st[p].key).currentBranch = "dev"
    /\ EntryOf(Manifest, st[p].key).clonedAt = CachedSample.clonedAt
    /\ EntryOf(Manifest, st[p].key).path = CachePath(st[p].key)
    /\ fs[CachePath(st[p].key)].branch = "dev"

(***************************************************************************)
(* Properties of the lock marker's removal, under SpecLock.                *)
(***************************************************************************)
\* C33: a marker created by a call whose body is still running, and younger
\* than the staleness threshold, is deleted by no other call but a
\* contender that has exhausted its attempts: not by another call's
\* release and not by a contender's removal of a stale marker.
YoungMarkerOfLiveHolderKept ==
  [][ \A p, q \in Procs :
        ( /\ p # q
          /\ lock.exists
          /\ lock.owner = q
          /\ lk[q].pc \in BodyPcs
          /\ lock.age <= LOCK_STALE_MS
          /\ ~lock'.exists
          /\ lk'[p] # lk[p] )
        => lk[p].pc = "exhausted" ]_vars

(***************************************************************************)
(* Properties of operations that do not overlap, under SpecSeq.            *)
(***************************************************************************)
\* C34: in every quiescent state reached by operations that do not overlap,
\* a git step failing partway through a branch switch included, every
\* cached entry whose path is a valid checkout has currentBranch equal to
\* the branch checked out in that working tree.
QuiescentBranchMatchesTree ==
  Quiescent
  => \A key \in DOMAIN Manifest.repos :
       LET entry == Manifest.repos[key]
       IN (entry.type = "cached" /\ isGitRepo(entry.path))
          => entry.currentBranch = fs[entry.path].branch
\* q's call of ensureCachedRepo, without a branch and not forced, has
\* returned a cached result
SucceededUnnamed(q) ==
  /\ st[q].pc = "done"
  /\ st[q].op = "ensure"
  /\ st[q].explicit = UNDEF
  /\ ~st[q].force
  /\ st[q].result.kind = "ok"
  /\ st[q].result.type = "cached"

\* C36: after ensureCachedRepo has succeeded for a spec without a branch, the
\* same call made again right away is a cache hit: it goes through the
\* validity test and the access refresh only, changes no directory (no
\* clone, fetch, checkout or reset), and returns the path and the branch the
\* first call returned, also when the first clone landed on a remote default
\* branch other than the configured one.
IdenticalRequestIsIdempotent ==
  [][ \A p, q \in Procs :
        ( /\ p # q
          /\ SucceededUnnamed(q)
          /\ st[p].pc \notin {"idle", "done"}
          /\ st[p].op = "ensure"
          /\ st[p].key = st[q].key
          /\ st[p].explicit = UNDEF
          /\ ~st[p].force )
        => /\ st[p].pc \in {"e_isrepo", "e_touched"}
           /\ fs' = fs
           /\ st'[p].pc = "done"
              => /\ st'[p].result.kind = "ok"
                 /\ st'[p].result.path = st[q].result.path
                 /\ st'[p].result.branch = st[q].result.branch ]_vars

\* C37: when ensureCachedRepo raises because every clone attempt failed, the
\* manifest then holds no cached entry for that key whose working tree is
\* absent, whatever the starting state, force = true on a key with a valid
\* cached entry included.
FailedCloneLeavesNoDanglingEntry ==
  [][ \A p \in Procs :
        ( /\ st[p].op = "ensure"
          /\ st[p].pc # "done"
          /\ st'[p].pc = "done"
          /\ st'[p].result.kind = "error"
          /\ st'[p].result.error.key # UNDEF )
        => LET entry == EntryOf(Manifest', st[p].key)
           IN ~(entry.type = "cached" /\ fs'[entry.path].kind = "absent") ]_vars

(***************************************************************************)
(* Properties of the access refresh, under Spec.                           *)
(***************************************************************************)
RefreshKinds == {"touch", "remove", "update"}

\* C38: touchRepo, removeRepoEntry and the write of repo_update never create
\* an entry.  The document such a call computes inside the lock has no key
\* the loaded manifest did not have; if its key is absent from the manifest
\* it loads, it returns without saving, and from there to its return the
\* call changes neither manifest.json nor the tmp file: an entry removed
\* before the call's body loads is not brought back by it.
RefreshNeverCreatesEntry ==
  [][ \A p \in Procs :
        (lk[p].w.kind \in RefreshKinds /\ lk'[p] # lk[p])
        => /\ lk[p].pc = "body"
              => /\ DOMAIN lk'[p].next.repos \subseteq DOMAIN Manifest.repos
                 /\ lk[p].w.key \notin DOMAIN Manifest.repos
                    => /\ lk'[p].pc = "release"
                       /\ lk'[p].outcome = "returned"
                       /\ ~lk'[p].wrote
                       /\ lk'[p].next = Manifest
           /\ (lk[p].pc = "body" \/ (lk[p].pc = "release" /\ ~lk[p].wrote))
              => /\ manifestFile' = manifestFile
                 /\ manifestTmp' = manifestTmp ]_vars

\* a request read the entry, another request's removal was committed, and
\* the first request's refresh found the key gone and returned without a save
RefreshFoundKeyRemoved ==
  \E p \in Procs :
    /\ lk[p].w.kind \in {"touch", "update"}
    /\ lk[p].pc = "release"
    /\ lk[p].outcome = "returned"
    /\ ~lk[p].wrote
    /\ st[p].existing.type = "cached"
    /\ lk[p].w.key \notin DOMAIN Manifest.repos

(***************************************************************************)
(* Properties of repo_scan, under Spec.                                    *)
(***************************************************************************)
\* the discoveries whose owner/repo key is held by a cached entry of m
HeldByCached(m, found) ==
  {i \in 1..Len(found) :
     /\ matchRemoteToSpec(found[i].remote) # UNDEF
     /\ EntryOf(m, matchRemoteToSpec(found[i].remote)).type = "cached"}

\* C39: repo_scan never replaces or modifies a cached entry.  In the document
\* its lock body computes, and in the one it saves, every cached entry of the
\* loaded manifest is as it was; for a discovered working tree whose key is
\* held by a cached entry, localIndex has for its remote what it had and the
\* discovery is counted as skipped; every entry that differs from the loaded
\* manifest's is of type local.
ScanLeavesCachedEntries ==
  [][ \A p \in Procs :
        (lk[p].w.kind = "scan" /\ lk'[p] # lk[p])
        => /\ lk[p].pc = "body"
              => LET m == Manifest
                     n == lk'[p].next
                     found == lk[p].w.found
                     counts == repoScanCounts(m, found)
                 IN /\ \A key \in DOMAIN m.repos :
                         m.repos[key].type = "cached"
                         => key \in DOMAIN n.repos /\ n.repos[key] = m.repos[key]
                    /\ \A key \in DOMAIN n.repos :
                         n.repos[key] # EntryOf(m, key) => n.repos[key].type = "local"
                    /\ \A i \in HeldByCached(m, found) :
                         LET remote == found[i].remote
                         IN /\ remote \in DOMAIN n.localIndex <=> remote \in DOMAIN m.localIndex
                            /\ remote \in DOMAIN m.localIndex
                               => n.localIndex[remote] = m.localIndex[remote]
                    /\ counts.skipped >= Cardinality(HeldByCached(m, found))
                    /\ counts.added + counts.skipped = Len(found)
                    /\ HeldByCached(m, found) = 1..Len(found)
                       => n = m /\ counts.added = 0
           /\ (lk[p].pc = "write" /\ lk'[p].pc = "rename")
              => LET saved == loadManifest(manifestTmp', nowIso).manifest
                 IN \A key \in DOMAIN lk[p].next.repos :
                      lk[p].next.repos[key].type = "cached"
                      => key \in DOMAIN saved.repos
                         /\ saved.repos[key] = lk[p].next.repos[key] ]_vars

\* a scan found the user's working tree of a repository that the manifest
\* holds as cached, and is about to save the manifest it loaded
ScanSkippedCachedKey ==
  \E p \in Procs :
    /\ lk[p].w.kind = "scan"
    /\ lk[p].pc = "rename"
    /\ HeldByCached(lk[p].next, lk[p].w.found) # {}
    /\ EntryOf(Manifest, "acme/widgets").type = "cached"
    /\ lk[p].next.repos["acme/widgets"] = Manifest.repos["acme/widgets"]

(***************************************************************************)
(* Properties of writes to different keys, under SpecKeys.                 *)
(***************************************************************************)
\* the manifest on disk shows the write that p's call saved
Shows(p) ==
  LET w == lk[p].w
  IN IF w.kind = "remove"
     THEN w.key \notin DOMAIN Manifest.repos
     ELSE /\ w.key \in DOMAIN Manifest.repos
          /\ Manifest.repos[w.key].currentBranch = w.branch

\* C35: when two calls that write different manifest keys have both
\* completed their save, no acquisition having been exhausted and no marker
\* having grown stale, the manifest on disk shows both writes.
WritesToDifferentKeysBothKept ==
  \A p, q \in Procs :
    ( /\ p # q
      /\ lk[p].pc = "returned" /\ lk[p].wrote
      /\ lk[q].pc = "returned" /\ lk[q].wrote )
    => Shows(p) /\ Shows(q)

=============================================================================
